---- MODULE Spec2Model ----
(***************************************************************************)
(* A model of cargo-dl: main and App::run (src/src/main.rs), the parsing of *)
(* its arguments (src/src/crate_name.rs, src/src/package_id_spec.rs),       *)
(* cache::lookup and cache::lookup_all (src/src/cache.rs) and               *)
(* unpack::unpack (src/src/unpack.rs).                                      *)
(***************************************************************************)
EXTENDS Integers, Sequences, FiniteSets, TLC

\* ------------------------------------------------------------------ bounds
\* Longest list of version records the index holds for one crate.
MaxVersions == 2
\* Longest archive (number of tar entries).
MaxEntries == 2
\* Largest number of requested specs (one worker thread per spec).
MaxSpecs == 2
\* Longest crate name spelled out of the pool of characters.
MaxNameLen == 2
\* Longest list of registry roots handed to cache::lookup_all.
MaxRoots == 3

\* main.rs:13  const CRATE_SIZE_LIMIT: u64 = 40 * 1024 * 1024;
CRATE_SIZE_LIMIT == 40 * 1024 * 1024

\* Option::None of an optional version part.
NONE == -1

Min(a, b) == IF a < b THEN a ELSE b

Range(s) == {s[i] : i \in 1..Len(s)}

\* Sequences over S of length at most n.
SeqsUpTo(S, n) == UNION {[1..k -> S] : k \in 0..n}

\* ------------------------------------------------------- semantic versions
\* Text is a sequence of tokens: "1.3.0-beta" is <<"1",".","3",".","0","-","beta">>,
\* and formatting concatenates texts.
RECURSIVE IndexOf(_, _, _)
IndexOf(s, tok, i) ==
    IF i > Len(s) THEN 0 ELSE IF s[i] = tok THEN i ELSE IndexOf(s, tok, i + 1)

\* The pieces of s between the separators sep.
RECURSIVE Split(_, _)
Split(s, sep) ==
    LET d == IndexOf(s, sep, 1)
    IN IF d = 0 THEN <<s>>
       ELSE <<SubSeq(s, 1, d - 1)>> \o Split(SubSeq(s, d + 1, Len(s)), sep)

\* Decimal value of a numeric token, NONE for any other token.
NumVal(tok) ==
    CASE tok = "0" -> 0 [] tok = "1" -> 1 [] tok = "2" -> 2 [] tok = "3" -> 3
      [] tok = "9" -> 9 [] OTHER -> NONE

\* Pre-release identifiers: numeric ("1") or alphanumeric ("beta").
Num(n) == [n |-> n, s |-> ""]
Alnum(s) == [n |-> NONE, s |-> s]

Ident(tok) == IF NumVal(tok) # NONE THEN Num(NumVal(tok)) ELSE Alnum(tok)

\* semver::Version::parse: MAJOR.MINOR.PATCH, then an optional `-` and
\* dot-separated pre-release identifiers; anything else is an error.
ParseVersion(text) ==
    LET d == IndexOf(text, "-", 1)
        core == Split(IF d = 0 THEN text ELSE SubSeq(text, 1, d - 1), ".")
        pre == IF d = 0 THEN <<>> ELSE Split(SubSeq(text, d + 1, Len(text)), ".")
    IN IF /\ Len(core) = 3
          /\ \A i \in 1..3 : Len(core[i]) = 1 /\ NumVal(core[i][1]) # NONE
          /\ \A i \in 1..Len(pre) : Len(pre[i]) = 1
       THEN [ok |-> TRUE, major |-> NumVal(core[1][1]), minor |-> NumVal(core[2][1]),
             patch |-> NumVal(core[3][1]),
             pre |-> [i \in 1..Len(pre) |-> Ident(pre[i][1])]]
       ELSE [ok |-> FALSE, major |-> 0, minor |-> 0, patch |-> 0, pre |-> <<>>]

\* Rank of an alphanumeric pre-release identifier in ASCII order.
AlnumRank(s) == CASE s = "alpha" -> 1 [] s = "beta" -> 2 [] s = "rc" -> 3 [] OTHER -> 4

\* Ordering of two pre-release identifiers: numeric identifiers compare
\* numerically and sort below alphanumeric ones.  -1, 0 or 1.
CmpIdent(a, b) ==
    IF a.s = "" /\ b.s = ""
    THEN (IF a.n < b.n THEN -1 ELSE IF a.n > b.n THEN 1 ELSE 0)
    ELSE IF a.s = "" THEN -1
    ELSE IF b.s = "" THEN 1
    ELSE IF AlnumRank(a.s) < AlnumRank(b.s) THEN -1
    ELSE IF AlnumRank(a.s) > AlnumRank(b.s) THEN 1 ELSE 0

RECURSIVE CmpIdents(_, _, _)
CmpIdents(a, b, i) ==
    IF i > Len(a) /\ i > Len(b) THEN 0
    ELSE IF i > Len(a) THEN -1
    ELSE IF i > Len(b) THEN 1
    ELSE IF CmpIdent(a[i], b[i]) # 0 THEN CmpIdent(a[i], b[i])
    ELSE CmpIdents(a, b, i + 1)

\* semver::Prerelease ordering: the empty pre-release is the greatest.
CmpPre(a, b) ==
    IF a = <<>> /\ b = <<>> THEN 0
    ELSE IF a = <<>> THEN 1
    ELSE IF b = <<>> THEN -1
    ELSE CmpIdents(a, b, 1)

CmpNat(a, b) == IF a < b THEN -1 ELSE IF a > b THEN 1 ELSE 0

\* semver::Version ordering (a.cmp(b)): major, minor, patch, pre-release.
CmpVersion(a, b) ==
    IF a.major # b.major THEN CmpNat(a.major, b.major)
    ELSE IF a.minor # b.minor THEN CmpNat(a.minor, b.minor)
    ELSE IF a.patch # b.patch THEN CmpNat(a.patch, b.patch)
    ELSE CmpPre(a.pre, b.pre)

\* -------------------------------------------------- version requirements
\* A comparator of a semver::VersionReq; minor and patch may be NONE.
Cmp(op, major, minor, patch, pre) ==
    [op |-> op, major |-> major, minor |-> minor, patch |-> patch, pre |-> pre]

matches_exact(c, v) ==
    /\ v.major = c.major
    /\ (c.minor # NONE => v.minor = c.minor)
    /\ (c.patch # NONE => v.patch = c.patch)
    /\ v.pre = c.pre

matches_greater(c, v) ==
    IF v.major # c.major THEN v.major > c.major
    ELSE IF c.minor = NONE THEN FALSE
    ELSE IF v.minor # c.minor THEN v.minor > c.minor
    ELSE IF c.patch = NONE THEN FALSE
    ELSE IF v.patch # c.patch THEN v.patch > c.patch
    ELSE CmpPre(v.pre, c.pre) > 0

matches_less(c, v) ==
    IF v.major # c.major THEN v.major < c.major
    ELSE IF c.minor = NONE THEN FALSE
    ELSE IF v.minor # c.minor THEN v.minor < c.minor
    ELSE IF c.patch = NONE THEN FALSE
    ELSE IF v.patch # c.patch THEN v.patch < c.patch
    ELSE CmpPre(v.pre, c.pre) < 0

matches_tilde(c, v) ==
    IF v.major # c.major THEN FALSE
    ELSE IF c.minor # NONE /\ v.minor # c.minor THEN FALSE
    ELSE IF c.patch # NONE /\ v.patch # c.patch THEN v.patch > c.patch
    ELSE CmpPre(v.pre, c.pre) >= 0

matches_caret(c, v) ==
    IF v.major # c.major THEN FALSE
    ELSE IF c.minor = NONE THEN TRUE
    ELSE IF c.patch = NONE
         THEN (IF c.major > 0 THEN v.minor >= c.minor ELSE v.minor = c.minor)
    ELSE IF c.major > 0 /\ v.minor # c.minor THEN v.minor > c.minor
    ELSE IF c.major > 0 /\ v.patch # c.patch THEN v.patch > c.patch
    ELSE IF c.major = 0 /\ c.minor > 0 /\ v.minor # c.minor THEN FALSE
    ELSE IF c.major = 0 /\ c.minor > 0 /\ v.patch # c.patch THEN v.patch > c.patch
    ELSE IF c.major = 0 /\ c.minor = 0 /\ (v.minor # c.minor \/ v.patch # c.patch)
         THEN FALSE
    ELSE CmpPre(v.pre, c.pre) >= 0

matches_impl(c, v) ==
    CASE c.op \in {"Exact", "Wildcard"} -> matches_exact(c, v)
      [] c.op = "Greater" -> matches_greater(c, v)
      [] c.op = "GreaterEq" -> matches_exact(c, v) \/ matches_greater(c, v)
      [] c.op = "Less" -> matches_less(c, v)
      [] c.op = "LessEq" -> matches_exact(c, v) \/ matches_less(c, v)
      [] c.op = "Tilde" -> matches_tilde(c, v)
      [] c.op = "Caret" -> matches_caret(c, v)

pre_is_compatible(c, v) ==
    /\ c.major = v.major
    /\ c.minor = v.minor
    /\ c.patch = v.patch
    /\ c.pre # <<>>

\* Mutant of Matches: pre-release versions are matched like any other.
MatchesAnyPre(req, v) == \A i \in 1..Len(req) : matches_impl(req[i], v)

\* VersionReq::matches: every comparator matches, and a pre-release version
\* needs a comparator naming a pre-release of the same major.minor.patch.
\* A requirement is its sequence of comparators; VersionReq::STAR has none.
Matches(req, v) ==
    /\ \A i \in 1..Len(req) : matches_impl(req[i], v)
    /\ (v.pre = <<>> \/ \E i \in 1..Len(req) : pre_is_compatible(req[i], v))

STAR == <<>>

\* PackageIdSpec { name, version_req: Option<VersionReq> }
Some(req) == [some |-> TRUE, req |-> req]
None == [some |-> FALSE, req |-> <<>>]
PackageIdSpec(name, version_req) == [name |-> name, version_req |-> version_req]

\* ------------------------------------------------ command-line tokens
\* A token of the command line is a text too: a crate name is spelled
\* character by character, and the characters outside ASCII are named by
\* their code points (U+00E9 is a Latin small e with acute, U+0663 the
\* Arabic-Indic digit three).
AsciiLetters == {"f", "o", "b", "a", "r", "Z"}
AsciiDigits == {"0", "1", "2", "3", "9"}

\* char::is_alphanumeric: the Unicode property, not the ASCII one.
is_alphanumeric(c) == c \in AsciiLetters \cup AsciiDigits \cup {"U+00E9", "U+0663"}

\* crate_name.rs:15-18  s.chars().enumerate().find(..): the position of the
\* first character that is neither alphanumeric nor '-' nor '_', 0 if none.
RECURSIVE FindInvalid(_, _)
FindInvalid(s, i) ==
    IF i > Len(s) THEN 0
    ELSE IF ~is_alphanumeric(s[i]) /\ s[i] \notin {"-", "_"} THEN i
    ELSE FindInvalid(s, i + 1)

\* Mutant of CrateName_from_str: the index counted from one.
CrateName_from_str_from_one(s) ==
    LET i == FindInvalid(s, 1)
    IN IF i # 0
       THEN [ok |-> FALSE, name |-> <<>>, char |-> s[i], index |-> i]
       ELSE [ok |-> TRUE, name |-> s, char |-> "", index |-> NONE]

\* crate_name.rs:14-23  <CrateName as FromStr>::from_str; the error is
\* InvalidCharacter(char, index), the index counted from zero.
CrateName_from_str(s) ==
    LET i == FindInvalid(s, 1)
    IN IF i # 0
       THEN [ok |-> FALSE, name |-> <<>>, char |-> s[i], index |-> i - 1]
       ELSE [ok |-> TRUE, name |-> s, char |-> "", index |-> NONE]

\* crate_name.rs:28-30  <CrateName as Display>::fmt: f.pad(&self.0).
CrateName_fmt(name) == name

\* text.trim_start_matches(' ')
RECURSIVE TrimStart(_)
TrimStart(text) ==
    IF text # <<>> /\ Head(text) = " " THEN TrimStart(Tail(text)) ELSE text

StartsWith(text, tok) == text # <<>> /\ Head(text) = tok

\* The result of a parsing step: the value and the text left over.
Parsed(val, rest) == [ok |-> TRUE, val |-> val, rest |-> rest]
NotParsed == [ok |-> FALSE, val |-> <<>>, rest |-> <<>>]

\* semver's op(): the operator in front of a comparator, Caret by default.
ParseOp(text) ==
    IF StartsWith(text, "=") THEN Parsed("Exact", Tail(text))
    ELSE IF StartsWith(text, ">")
         THEN (IF StartsWith(Tail(text), "=") THEN Parsed("GreaterEq", Tail(Tail(text)))
               ELSE Parsed("Greater", Tail(text)))
    ELSE IF StartsWith(text, "<")
         THEN (IF StartsWith(Tail(text), "=") THEN Parsed("LessEq", Tail(Tail(text)))
               ELSE Parsed("Less", Tail(text)))
    ELSE IF StartsWith(text, "~") THEN Parsed("Tilde", Tail(text))
    ELSE IF StartsWith(text, "^") THEN Parsed("Caret", Tail(text))
    ELSE Parsed("Caret", text)

\* semver's numeric_identifier(): a number, or an error.
ParseNumber(text) ==
    IF text # <<>> /\ NumVal(Head(text)) # NONE
    THEN Parsed(NumVal(Head(text)), Tail(text))
    ELSE NotParsed

IsWildcard(tok) == tok \in {"*", "x", "X"}

\* An identifier of a pre-release: digits, ASCII letters and '-'.
IsPreIdent(tok) == NumVal(tok) # NONE \/ tok \in {"alpha", "beta", "rc"}

\* semver's prerelease_identifier(): identifiers separated by dots; an empty
\* one is an error.
RECURSIVE ParsePre(_)
ParsePre(text) ==
    IF text = <<>> \/ ~IsPreIdent(Head(text)) THEN NotParsed
    ELSE IF StartsWith(Tail(text), ".")
         THEN LET more == ParsePre(Tail(Tail(text)))
              IN IF more.ok THEN Parsed(<<Ident(Head(text))>> \o more.val, more.rest)
                 ELSE NotParsed
    ELSE Parsed(<<Ident(Head(text))>>, Tail(text))

\* An optional part after a dot, .minor or .patch: a number or a
\* wildcard; a number after a wildcard part is an error.
Part(val, rest, wild) == [ok |-> TRUE, val |-> val, rest |-> rest, wild |-> wild]
NoPart == [ok |-> FALSE, val |-> NONE, rest |-> <<>>, wild |-> FALSE]
ParsePart(text, has_wildcard) ==
    IF ~StartsWith(text, ".") THEN Part(NONE, text, FALSE)
    ELSE IF Tail(text) = <<>> THEN NoPart
    ELSE IF IsWildcard(Tail(text)[1]) THEN Part(NONE, Tail(Tail(text)), TRUE)
    ELSE IF has_wildcard \/ NumVal(Tail(text)[1]) = NONE THEN NoPart
    ELSE Part(NumVal(Tail(text)[1]), Tail(Tail(text)), FALSE)

\* semver's comparator(): operator, major, then optionally .minor, .patch
\* and -pre; a wildcard part turns a comparator without operator into a
\* Wildcard one.  Spaces may follow the operator and the comparator.
AfterPre(op, major, minor, patch, pre) ==
    IF ~pre.ok THEN NotParsed
    ELSE Parsed(Cmp(op, major, minor, patch, pre.val), TrimStart(pre.rest))

AfterPatch(op, default_op, major, minor, patch) ==
    IF ~patch.ok THEN NotParsed
    ELSE AfterPre(IF default_op /\ (minor.wild \/ patch.wild) THEN "Wildcard" ELSE op,
                  major, minor.val, patch.val,
                  IF patch.val # NONE /\ StartsWith(patch.rest, "-")
                  THEN ParsePre(Tail(patch.rest))
                  ELSE Parsed(<<>>, patch.rest))

AfterMinor(op, default_op, major, minor) ==
    IF ~minor.ok THEN NotParsed
    ELSE AfterPatch(op, default_op, major, minor, ParsePart(minor.rest, minor.wild))

AfterMajor(op, default_op, major) ==
    IF ~major.ok THEN NotParsed
    ELSE AfterMinor(op, default_op, major.val, ParsePart(major.rest, FALSE))

AfterOp(o, input) == AfterMajor(o.val, o.rest = input, ParseNumber(TrimStart(o.rest)))

ParseComparator(input) == AfterOp(ParseOp(input), input)

\* semver's version_req(): comparators separated by commas.
RECURSIVE ParseComparators(_)
ParseComparators(text) ==
    LET c == ParseComparator(text)
    IN IF ~c.ok THEN NotParsed
       ELSE IF c.rest = <<>> THEN Parsed(<<c.val>>, <<>>)
       ELSE IF ~StartsWith(c.rest, ",") THEN NotParsed
       ELSE LET more == ParseComparators(TrimStart(Tail(c.rest)))
            IN IF more.ok THEN Parsed(<<c.val>> \o more.val, <<>>) ELSE NotParsed

\* <semver::VersionReq as FromStr>::from_str: a lone wildcard is STAR,
\* anything after it an error; else the comparators.
VersionReq_from_str(input) ==
    LET text == TrimStart(input)
    IN IF text # <<>> /\ IsWildcard(Head(text))
       THEN (IF TrimStart(Tail(text)) = <<>> THEN Parsed(STAR, <<>>) ELSE NotParsed)
       ELSE ParseComparators(text)

\* The decimal digits of a number.
DigitTok(n) ==
    CASE n = 0 -> "0" [] n = 1 -> "1" [] n = 2 -> "2" [] n = 3 -> "3" [] n = 9 -> "9"

IdentTok(id) == IF id.s = "" THEN DigitTok(id.n) ELSE id.s

RECURSIVE JoinDots(_)
JoinDots(pre) ==
    IF Len(pre) = 1 THEN <<IdentTok(pre[1])>>
    ELSE <<IdentTok(pre[1]), ".">> \o JoinDots(Tail(pre))

\* <semver::Comparator as Display>::fmt
Comparator_fmt(c) ==
    LET op == CASE c.op = "Exact" -> <<"=">> [] c.op = "Greater" -> <<">">>
                [] c.op = "GreaterEq" -> <<">", "=">> [] c.op = "Less" -> <<"<">>
                [] c.op = "LessEq" -> <<"<", "=">> [] c.op = "Tilde" -> <<"~">>
                [] c.op = "Caret" -> <<"^">> [] c.op = "Wildcard" -> <<>>
        star == IF c.op = "Wildcard" THEN <<".", "*">> ELSE <<>>
    IN op \o <<DigitTok(c.major)>> \o
       (IF c.minor # NONE
        THEN <<".", DigitTok(c.minor)>> \o
             (IF c.patch # NONE
              THEN <<".", DigitTok(c.patch)>> \o
                   (IF c.pre # <<>> THEN <<"-">> \o JoinDots(c.pre) ELSE <<>>)
              ELSE star)
        ELSE star)

\* <semver::VersionReq as Display>::fmt: "*" without comparators, else the
\* comparators separated by ", ".
RECURSIVE VersionReq_fmt(_)
VersionReq_fmt(req) ==
    IF req = <<>> THEN <<"*">>
    ELSE IF Len(req) = 1 THEN Comparator_fmt(req[1])
    ELSE Comparator_fmt(req[1]) \o <<",", " ">> \o VersionReq_fmt(Tail(req))

\* package_id_spec.rs:21-35  <PackageIdSpec as FromStr>::from_str: the token
\* is split at the first '@'.  The error is CrateName or VersionReq.
PackageIdSpec_from_str(s) ==
    LET i == IndexOf(s, "@", 1)
        name == CrateName_from_str(IF i = 0 THEN s ELSE SubSeq(s, 1, i - 1))
        req == IF i = 0 THEN Parsed(<<>>, <<>>)
               ELSE VersionReq_from_str(SubSeq(s, i + 1, Len(s)))
    IN IF ~name.ok
       THEN [ok |-> FALSE, spec |-> PackageIdSpec(<<>>, None), error |-> "CrateName",
             char |-> name.char, index |-> name.index]
       ELSE IF ~req.ok
       THEN [ok |-> FALSE, spec |-> PackageIdSpec(<<>>, None), error |-> "VersionReq",
             char |-> "", index |-> NONE]
       ELSE [ok |-> TRUE,
             spec |-> PackageIdSpec(name.name, IF i = 0 THEN None ELSE Some(req.val)),
             error |-> "", char |-> "", index |-> NONE]

\* package_id_spec.rs:40-46  <PackageIdSpec as Display>::fmt
PackageIdSpec_fmt(spec) ==
    IF spec.version_req.some
    THEN CrateName_fmt(spec.name) \o <<"@">> \o VersionReq_fmt(spec.version_req.req)
    ELSE CrateName_fmt(spec.name)

\* --------------------------------------------------------------- resolver
\* A version record of the index (crates_index::Version).
Record(name, vers, cksum, yanked) ==
    [name |-> name, vers |-> vers, cksum |-> cksum, yanked |-> yanked]

\* Placeholder where no version record is held.
NoVersion == Record(<<>>, <<>>, 0, FALSE)

\* main.rs:146-161 and 175-190: the records kept by the yank filter `keep`,
\* parsed as semantic versions (non-semver versions are skipped) and matched
\* against the request, in index order, each paired with its parsed number.
RECURSIVE FilterVersions(_, _, _, _)
FilterVersions(krate, version_request, keep, i) ==
    IF i > Len(krate) THEN <<>>
    ELSE LET version == krate[i]
             num == ParseVersion(version.vers)
             rest == FilterVersions(krate, version_request, keep, i + 1)
         IN IF keep[i] /\ num.ok /\ Matches(version_request, num)
            THEN <<[num |-> num, version |-> version]>> \o rest
            ELSE rest

\* Position at which a stable descending sort puts x into the sorted s:
\* behind every element that is not lower than x.
RECURSIVE InsertPos(_, _, _)
InsertPos(s, x, i) ==
    IF i > Len(s) THEN i
    ELSE IF CmpVersion(s[i].num, x.num) < 0 THEN i
    ELSE InsertPos(s, x, i + 1)

InsertDesc(s, x) ==
    LET p == InsertPos(s, x, 1)
    IN SubSeq(s, 1, p - 1) \o <<x>> \o SubSeq(s, p, Len(s))

\* Mutant of SortDesc: the sort without `.reverse()`, lowest first.
RECURSIVE SortAsc(_, _)
SortAsc(s, n) ==
    IF n = 0 THEN <<>>
    ELSE LET rest == SortAsc(s, n - 1)
             before == SelectSeq(rest, LAMBDA e : CmpVersion(e.num, s[n].num) <= 0)
             after == SelectSeq(rest, LAMBDA e : CmpVersion(e.num, s[n].num) > 0)
         IN before \o <<s[n]>> \o after

\* main.rs:162  versions.sort_by(|(a, _), (b, _)| a.cmp(b).reverse()), a
\* stable sort: equal versions keep their index order.
RECURSIVE SortDesc(_, _)
SortDesc(s, n) ==
    IF n = 0 THEN <<>> ELSE InsertDesc(SortDesc(s, n - 1), s[n])

\* Mutant of MatchingVersions: the yank filter of line 149 left out.
MatchingVersionsUnfiltered(krate, version_request, allow_yanked) ==
    LET keep == [i \in 1..Len(krate) |-> TRUE]
        found == FilterVersions(krate, version_request, keep, 1)
    IN SortDesc(found, Len(found))

\* main.rs:145-164  the candidates, highest first.
MatchingVersions(krate, version_request, allow_yanked) ==
    LET keep == [i \in 1..Len(krate) |-> allow_yanked \/ ~krate[i].yanked]
        found == FilterVersions(krate, version_request, keep, 1)
    IN SortDesc(found, Len(found))

\* Mutant of YankedVersions: the filter of line 188 left out, so that every
\* yanked record counts as a match.
YankedVersionsAnyRequest(krate, version_request) ==
    LET keep == [i \in 1..Len(krate) |-> krate[i].yanked]
        found == FilterVersions(krate, STAR, keep, 1)
    IN SortDesc(found, Len(found))

\* Mutant of YankedVersions: the sort of line 191 left out.
YankedVersionsUnsorted(krate, version_request) ==
    LET keep == [i \in 1..Len(krate) |-> krate[i].yanked]
    IN FilterVersions(krate, version_request, keep, 1)

\* main.rs:174-193  the yanked records matching the request, highest first.
YankedVersions(krate, version_request) ==
    LET keep == [i \in 1..Len(krate) |-> krate[i].yanked]
        found == FilterVersions(krate, version_request, keep, 1)
    IN SortDesc(found, Len(found))

\* main.rs:194-198  the failure message; the hint names the first yanked match.
NoMatchMessage(krate, version_request) ==
    LET yanked_versions == YankedVersions(krate, version_request)
    IN IF yanked_versions = <<>>
       THEN [text |-> "no matching version found", hint |-> FALSE,
             yanked |-> NoVersion]
       ELSE [text |-> "no matching version found", hint |-> TRUE,
             yanked |-> yanked_versions[1].version]

\* ------------------------------------------------------------ artifacts
\* File content: its length in bytes and which bytes they are (tag).  A
\* prefix of a content has the same tag and a smaller length.
Content(len, tag) == [len |-> len, tag |-> tag]

\* sha2::Sha256::digest, as an injective encoding of the content.
Sha256(c) == c.len * 4 + c.tag + 1

\* Read::take(limit).read_to_end: at most `limit` bytes of the body.
Take(body, limit) == Content(Min(body.len, limit), body.tag)

\* format!("{}-{}", version.name(), version.version())
BaseName(version) == version.name \o <<"-">> \o version.vers

\* format!("{}-{}.crate", version.name(), version.version())
CrateFileName(version) == version.name \o <<"-">> \o version.vers \o <<".crate">>

\* ------------------------------------------------------------------ cache
\* The cache side of the filesystem is fs = [dirs, files]: the directories
\* that exist and the content of each file that exists, keyed by
\* [dir |-> directory, name |-> file name].
CacheFile(dir, name) == [dir |-> dir, name |-> name]

Ok(v) == [ok |-> TRUE, val |-> v, err |-> ""]
Err(e) == [ok |-> FALSE, val |-> CacheFile(<<>>, <<>>), err |-> e]

\* cache.rs:19-51  path is the registry's local index path, by component.
find_cache_dir(path, fs) ==
    LET n == Len(path)
    IN IF n < 1 THEN Err("missing index dirname")
       ELSE IF n < 2 THEN Err("missing index parent")
       ELSE IF n < 3 THEN Err("missing index grandparent")
       ELSE IF path[n - 1] # "index" \/ path[n - 2] # "registry"
            THEN Err("unexpected registry cache structure")
       ELSE LET cache_path == SubSeq(path, 1, n - 3) \o <<"registry", "cache", path[n]>>
            IN IF cache_path \notin fs.dirs
               THEN Err("cache dir does not exist")
               ELSE [ok |-> TRUE, val |-> cache_path, err |-> ""]

\* cache.rs:7-15  open_fails: File::open or the read fails.
sha256_file(file, fs, open_fails) ==
    IF open_fails \/ file \notin DOMAIN fs.files
    THEN [ok |-> FALSE, val |-> 0, err |-> "hashing"]
    ELSE [ok |-> TRUE, val |-> Sha256(fs.files[file]), err |-> ""]

\* Mutant of lookup: the comparison of line 72 left out.
lookup_unverified(path, version, fs, open_fails) ==
    LET cache_dir == find_cache_dir(path, fs)
        cache_file == CacheFile(cache_dir.val, CrateFileName(version))
    IN IF ~cache_dir.ok THEN Err(cache_dir.err)
       ELSE IF cache_file \notin DOMAIN fs.files THEN Err("cache file does not exist")
       ELSE IF ~sha256_file(cache_file, fs, open_fails).ok THEN Err("hashing")
       ELSE Ok(cache_file)

\* cache.rs:60-81
lookup(path, version, fs, open_fails) ==
    LET cache_dir == find_cache_dir(path, fs)
    IN IF ~cache_dir.ok THEN Err(cache_dir.err)
       ELSE LET cache_file == CacheFile(cache_dir.val, CrateFileName(version))
            IN IF cache_file \notin DOMAIN fs.files
               THEN Err("cache file does not exist")
               ELSE LET calculated_checksum == sha256_file(cache_file, fs, open_fails)
                    IN IF ~calculated_checksum.ok THEN Err(calculated_checksum.err)
                       ELSE IF calculated_checksum.val # version.cksum
                            THEN Err("invalid checksum")
                       ELSE Ok(cache_file)

\* ----------------------------------------------------------------- unpack
\* A place on disk: a root (an output path, or <<"/">> for the filesystem
\* root) and the path below it.  disk maps each existing place to its node.
Loc(root, path) == [root |-> root, path |-> path]
FsRoot == Loc(<<"/">>, <<>>)
NoLoc == Loc(<<>>, <<>>)
Child(dir, seg) == Loc(dir.root, Append(dir.path, seg))
Parent(loc) == Loc(loc.root, SubSeq(loc.path, 1, Len(loc.path) - 1))

LinkTarget(abs, path) == [abs |-> abs, path |-> path]
NoTarget == LinkTarget(FALSE, <<>>)
Node(kind, content, target) == [kind |-> kind, content |-> content, target |-> target]
DirNode == Node("dir", Content(0, 0), NoTarget)

\* A tar entry: its path by segment, its kind ("file", "dir", "symlink"),
\* and for a symlink its link name.
Entry(path, kind, target) == [path |-> path, kind |-> kind, target |-> target]

\* std::path::Component of a path segment.
Component(seg) ==
    CASE seg = <<"..">> -> "ParentDir"
      [] seg = <<"/">> -> "RootDir"
      [] seg = <<"C:">> -> "Prefix"
      [] OTHER -> "Normal"

\* Mutant of IsUnsafe: Component::ParentDir left out of the pattern.
IsUnsafeNoParentDir(path) ==
    \E i \in 1..Len(path) : Component(path[i]) \in {"RootDir", "Prefix"}

\* unpack.rs:16-21
IsUnsafe(path) ==
    \E i \in 1..Len(path) : Component(path[i]) \in {"ParentDir", "RootDir", "Prefix"}

\* Where a symlink found in directory dir points.
LinkDest(dir, target) ==
    IF target.abs THEN Loc(FsRoot.root, target.path)
    ELSE Loc(dir.root, dir.path \o target.path)

\* The directory that the name loc denotes, symlinks followed; NoLoc when it
\* is missing, a file, or a symlink loop.
RECURSIVE Follow(_, _, _)
Follow(d, loc, fuel) ==
    IF loc \notin DOMAIN d THEN NoLoc
    ELSE IF d[loc].kind = "dir" THEN loc
    ELSE IF d[loc].kind = "symlink" /\ fuel > 0
         THEN Follow(d, LinkDest(Parent(loc), d[loc].target), fuel - 1)
    ELSE NoLoc

\* std::fs::create_dir_all below st.cur: missing directories are created,
\* existing names must denote directories (symlinks are followed).
RECURSIVE MkDirs(_, _, _)
MkDirs(st, segs, i) ==
    IF ~st.ok \/ i > Len(segs) THEN st
    ELSE LET next == Child(st.cur, segs[i])
         IN IF next \notin DOMAIN st.disk
            THEN MkDirs([st EXCEPT !.disk = (next :> DirNode) @@ @, !.cur = next,
                                   !.created = @ \cup {next}], segs, i + 1)
            ELSE LET dir == Follow(st.disk, next, Cardinality(DOMAIN st.disk))
                 IN IF dir = NoLoc THEN [st EXCEPT !.ok = FALSE]
                    ELSE MkDirs([st EXCEPT !.cur = dir], segs, i + 1)

\* tar::Entry::unpack(dst) with dst the name `last` in directory `dir`: a
\* directory is created or kept, a file or symlink replaces what is there.
\* The result is [ok, disk, at], `at` the place created or modified.
EntryUnpack(d, at, entry) ==
    IF entry.kind = "dir"
    THEN IF at \notin DOMAIN d
         THEN [ok |-> TRUE, disk |-> (at :> DirNode) @@ d, at |-> {at}]
         ELSE IF Follow(d, at, Cardinality(DOMAIN d)) # NoLoc
              THEN [ok |-> TRUE, disk |-> d, at |-> {}]
              ELSE [ok |-> FALSE, disk |-> d, at |-> {}]
    ELSE IF at \in DOMAIN d /\ d[at].kind = "dir"
         THEN [ok |-> FALSE, disk |-> d, at |-> {}]
         ELSE [ok |-> TRUE,
               disk |-> (at :> Node(entry.kind, Content(0, 0), entry.target)) @@ d,
               at |-> {at}]

\* Mutant of UnpackEntry: the entry's whole path is joined to the output,
\* the prefix checked but left in place.
UnpackEntryKeepsPrefix(d, output, base, entry, io_fails) ==
    LET path == entry.path
    IN IF IsUnsafe(path)
       THEN [status |-> "unsafe path", disk |-> d, touched |-> {}]
       ELSE IF path = <<>> \/ path[1] # base
       THEN [status |-> "strip prefix", disk |-> d, touched |-> {}]
       ELSE LET dirs == MkDirs([ok |-> TRUE, disk |-> d, cur |-> Loc(output, <<>>),
                                created |-> {}],
                               SubSeq(path, 1, Len(path) - 1), 1)
            IN IF ~dirs.ok \/ io_fails
               THEN [status |-> "io", disk |-> dirs.disk, touched |-> dirs.created]
               ELSE LET res == EntryUnpack(dirs.disk, Child(dirs.cur, path[Len(path)]),
                                           entry)
                    IN [status |-> IF res.ok THEN "ok" ELSE "io",
                        disk |-> res.disk, touched |-> dirs.created \cup res.at]

\* unpack.rs:15-29  one round of the loop over the archive's entries.  The
\* result is [status, disk, touched]: status "ok", or the error thrown.
UnpackEntry(d, output, base, entry, io_fails) ==
    LET path == entry.path
    IN IF IsUnsafe(path)
       THEN [status |-> "unsafe path", disk |-> d, touched |-> {}]
       ELSE IF path = <<>> \/ path[1] # base
       THEN [status |-> "strip prefix", disk |-> d, touched |-> {}]
       ELSE LET rel == Tail(path)
                dirs == MkDirs([ok |-> TRUE, disk |-> d, cur |-> Loc(output, <<>>),
                                created |-> {}],
                               SubSeq(rel, 1, Len(rel) - 1), 1)
            IN IF ~dirs.ok \/ io_fails
               THEN [status |-> "io", disk |-> dirs.disk, touched |-> dirs.created]
               ELSE LET at == IF rel = <<>> THEN Loc(output, <<>>)
                              ELSE Child(dirs.cur, rel[Len(rel)])
                        res == EntryUnpack(dirs.disk, at, entry)
                    IN [status |-> IF res.ok THEN "ok" ELSE "io",
                        disk |-> res.disk, touched |-> dirs.created \cup res.at]

\* ------------------------------------------------------------------ state
VARIABLES
    app,        \* the parsed command line (struct App)
    index,      \* the local clone of the registry index: crate name -> its
                \* version records
    env,        \* the world outside: index path, server, archives, faults
    cache_fs,   \* the cargo cache on disk: [dirs, files]
    disk,       \* the output side of the filesystem: place -> node
    main,       \* the main thread: main, then App::run (lines 83-102, 297-319)
    idx,        \* the thread spawned at line 103
    workers     \* the threads spawned at line 121, one per spec

vars == <<app, index, env, cache_fs, disk, main, idx, workers>>

Msg(text) == [text |-> text, hint |-> FALSE, yanked |-> NoVersion]

\* A worker before it is spawned.
IdleWorker ==
    [pc |-> "idle", result |-> "", err |-> "", err_path |-> <<>>, msg |-> Msg(""),
     version |-> NoVersion, output |-> <<>>, cached |-> Err(""),
     data |-> Content(0, 0), capacity |-> 0, source |-> "", prefix |-> <<>>,
     entries |-> <<>>, bad_archive |-> FALSE, i |-> 0,
     materialized |-> <<>>, touched |-> {}, urls |-> <<>>, probes |-> <<>>]

NumSpecs == Len(app.specs)
Threads == 1..NumSpecs

\* Whether the environment makes thread t's operation `point` fail
\* (a transport or filesystem error); thread 0 is the index thread.
Fault(t, point) == <<t, point>> \in env.faults

\* The process is alive: once main has returned and the process has exited,
\* no thread runs any more.
Alive == main.pc # "exited"

\* A clone of the index that is one publication behind the registry: the
\* newest record of every crate is missing.
Behind(ix) == [n \in DOMAIN ix |-> SubSeq(ix[n], 1, Len(ix[n]) - 1)]

\* The filesystem before the run: the root and a directory /outside.
EmptyDisk == (FsRoot :> DirNode) @@ (Loc(FsRoot.root, <<<<"outside">>>>) :> DirNode)

\* No token was refused.
NoInvalid == [arg |-> 0, error |-> "", char |-> "", index |-> NONE]

\* The state after construction: the process was started with the tokens
\* args and the flags of a; nothing has run and no spec is parsed yet.  The
\* registry holds ix; the local clone holds it too when the run will not
\* update the index, and is behind it otherwise.
SetupArgs(args, a, ix, e, cfs) ==
    /\ app = [a EXCEPT !.specs = <<>>]
    /\ index = IF a.update_index THEN Behind(ix) ELSE ix
    /\ env = [e EXCEPT !.upstream = ix]
    /\ cache_fs = cfs
    /\ disk = EmptyDisk
    /\ main = [pc |-> "args", args |-> args, invalid |-> NoInvalid,
               logged_error |-> FALSE, joining |-> 0, result |-> ""]
    /\ idx = [pc |-> "idle", spawned |-> 0, updates |-> 0, result |-> ""]
    /\ workers = <<>>

\* A command line that names the specs of a, each written as it is displayed.
Setup(a, ix, e, cfs) ==
    SetupArgs([i \in DOMAIN a.specs |-> PackageIdSpec_fmt(a.specs[i])], a, ix, e, cfs)

\* ---------------------------------------------------------------- main
\* The first token that PackageIdSpec::from_str refuses, 0 if none.
RECURSIVE FirstInvalid(_, _)
FirstInvalid(args, i) ==
    IF i > Len(args) THEN 0
    ELSE IF ~PackageIdSpec_from_str(args[i]).ok THEN i
    ELSE FirstInvalid(args, i + 1)

\* The tokens that from_str accepts, in order.
RECURSIVE ValidOnly(_)
ValidOnly(args) ==
    IF args = <<>> THEN <<>>
    ELSE IF PackageIdSpec_from_str(Head(args)).ok
         THEN <<Head(args)>> \o ValidOnly(Tail(args))
         ELSE ValidOnly(Tail(args))

\* Mutant of ParseArgs: a token that from_str refuses is skipped, and the
\* run acquires the others.
ParseArgsSkipsInvalid ==
    /\ main.pc = "args"
    /\ app' = [app EXCEPT !.specs =
                 [i \in DOMAIN ValidOnly(main.args) |->
                     PackageIdSpec_from_str(ValidOnly(main.args)[i]).spec]]
    /\ workers' = [w \in DOMAIN ValidOnly(main.args) |-> IdleWorker]
    /\ main' = [main EXCEPT !.pc = "start"]
    /\ UNCHANGED <<index, env, cache_fs, disk, idx>>

\* main.rs:388-410  clap parses every token before anything else happens:
\* without a token, or with one that from_str refuses, the process prints
\* the error and exits; else the App is built and run is called.
ParseArgs ==
    /\ main.pc = "args"
    /\ LET bad == FirstInvalid(main.args, 1)
       IN IF main.args = <<>>
          THEN /\ main' = [main EXCEPT !.pc = "exited", !.result = "missing argument"]
               /\ UNCHANGED <<app, workers>>
          ELSE IF bad # 0
          THEN /\ main' = [main EXCEPT !.pc = "exited", !.result = "invalid value",
                              !.invalid = LET r == PackageIdSpec_from_str(main.args[bad])
                                          IN [arg |-> bad, error |-> r.error,
                                              char |-> r.char, index |-> r.index]]
               /\ UNCHANGED <<app, workers>>
          ELSE /\ app' = [app EXCEPT !.specs =
                            [i \in DOMAIN main.args |->
                                PackageIdSpec_from_str(main.args[i]).spec]]
               /\ workers' = [w \in DOMAIN main.args |-> IdleWorker]
               /\ main' = [main EXCEPT !.pc = "start"]
    /\ UNCHANGED <<index, env, cache_fs, disk, idx>>

\* ------------------------------------------------------------ App::run
\* Mutant of RunStart: the --output check left out.
RunStartUnchecked ==
    /\ main.pc = "start"
    /\ main' = [main EXCEPT !.pc = "join_index"]
    /\ idx' = [idx EXCEPT !.pc = "open"]
    /\ UNCHANGED <<app, index, env, cache_fs, disk, workers>>

\* main.rs:84-103  the --output check, then the index thread is spawned.
RunStart ==
    /\ main.pc = "start"
    /\ IF NumSpecs > 1 /\ app.output # <<>>
       THEN /\ main' = [main EXCEPT !.pc = "returned",
                           !.result = "cannot use --output with multiple crates"]
            /\ idx' = idx
       ELSE /\ main' = [main EXCEPT !.pc = "join_index"]
            /\ idx' = [idx EXCEPT !.pc = "open"]
    /\ UNCHANGED <<app, index, env, cache_fs, disk, workers>>

\* main.rs:104  Index::new_cargo_default()?
IndexOpen ==
    /\ Alive /\ idx.pc = "open"
    /\ idx' = IF Fault(0, "index_open")
              THEN [idx EXCEPT !.pc = "done", !.result = "error"]
              ELSE [idx EXCEPT !.pc = IF app.update_index THEN "update" ELSE "spawn"]
    /\ UNCHANGED <<app, index, env, cache_fs, disk, main, workers>>

\* main.rs:105-117  index.update()?: the local clone is brought up to the
\* registry's state, unless the update fails.
IndexUpdate ==
    /\ Alive /\ idx.pc = "update"
    /\ IF Fault(0, "index_update")
       THEN /\ idx' = [idx EXCEPT !.pc = "done", !.result = "error", !.updates = @ + 1]
            /\ index' = index
       ELSE /\ idx' = [idx EXCEPT !.pc = "spawn", !.updates = @ + 1]
            /\ index' = env.upstream
    /\ UNCHANGED <<app, env, cache_fs, disk, main, workers>>

\* Mutant of Spawn: the workers are spawned without waiting for the update.
SpawnBeforeUpdate ==
    /\ Alive /\ idx.pc \in {"update", "spawn"} /\ idx.spawned < NumSpecs
    /\ idx' = [idx EXCEPT !.spawned = @ + 1]
    /\ workers' = [workers EXCEPT ![idx.spawned + 1].pc = "start"]
    /\ UNCHANGED <<app, index, env, cache_fs, disk, main>>

\* main.rs:119-121  one worker is spawned per spec, in order.
Spawn ==
    /\ Alive /\ idx.pc = "spawn" /\ idx.spawned < NumSpecs
    /\ idx' = [idx EXCEPT !.spawned = @ + 1]
    /\ workers' = [workers EXCEPT ![idx.spawned + 1].pc = "start"]
    /\ UNCHANGED <<app, index, env, cache_fs, disk, main>>

\* main.rs:295  the index thread returns the workers' handles.
IndexReturn ==
    /\ Alive /\ idx.pc = "spawn" /\ idx.spawned = NumSpecs
    /\ idx' = [idx EXCEPT !.pc = "done", !.result = "ok"]
    /\ UNCHANGED <<app, index, env, cache_fs, disk, main, workers>>

\* main.rs:298-300  thread.join(), then `threads?`.
JoinIndex ==
    /\ main.pc = "join_index" /\ idx.pc = "done"
    /\ main' = IF idx.result = "ok"
               THEN [main EXCEPT !.pc = "join", !.joining = 1]
               ELSE [main EXCEPT !.pc = "returned", !.result = "index error"]
    /\ UNCHANGED <<app, index, env, cache_fs, disk, idx, workers>>

\* Mutant of JoinWorker: a LoggedError is not remembered.
JoinWorkerForgets ==
    /\ main.pc = "join" /\ main.joining <= NumSpecs
    /\ workers[main.joining].pc = "done"
    /\ main' = IF workers[main.joining].result \in {"ok", "logged"}
               THEN [main EXCEPT !.joining = @ + 1]
               ELSE [main EXCEPT !.pc = "returned", !.result = "could not acquire"]
    /\ UNCHANGED <<app, index, env, cache_fs, disk, idx, workers>>

\* main.rs:300-312  the next worker is joined once it has ended; an error
\* that is no LoggedError is thrown at once.
JoinWorker ==
    /\ main.pc = "join" /\ main.joining <= NumSpecs
    /\ workers[main.joining].pc = "done"
    /\ LET r == workers[main.joining].result
       IN main' = CASE r = "ok" -> [main EXCEPT !.joining = @ + 1]
                    [] r = "logged" -> [main EXCEPT !.joining = @ + 1,
                                                    !.logged_error = TRUE]
                    [] OTHER -> [main EXCEPT !.pc = "returned",
                                             !.result = "could not acquire"]
    /\ UNCHANGED <<app, index, env, cache_fs, disk, idx, workers>>

\* main.rs:316-319
RunReturn ==
    /\ main.pc = "join" /\ main.joining > NumSpecs
    /\ main' = [main EXCEPT !.pc = "returned",
                   !.result = IF main.logged_error THEN "LoggedError" ELSE "ok"]
    /\ UNCHANGED <<app, index, env, cache_fs, disk, idx, workers>>

\* main.rs:392  run has returned to main, which returns: the process exits
\* and with it every thread still running.
ProcessExit ==
    /\ main.pc = "returned"
    /\ main' = [main EXCEPT !.pc = "exited"]
    /\ UNCHANGED <<app, index, env, cache_fs, disk, idx, workers>>

\* ------------------------------------------------------------- spec worker
\* The worker ends with `return Err(LoggedError.into())` after showing msg.
EndLogged(w, msg) == [workers[w] EXCEPT !.pc = "done", !.result = "logged", !.msg = msg]

\* The worker ends with an error thrown by `?`.
EndError(w, e) == [workers[w] EXCEPT !.pc = "done", !.result = "error", !.err = e]

\* The worker ends with Ok(()).
EndOk(w, text) == [workers[w] EXCEPT !.pc = "done", !.result = "ok", !.msg = Msg(text)]

\* main.rs:207-211
OutputPath(version) ==
    IF app.output # <<>> THEN app.output
    ELSE IF app.extract THEN BaseName(version)
    ELSE CrateFileName(version)

\* tar::Archive::new(GzDecoder::new(..)) over the bytes c: the archive they
\* encode, or a read error.
Decode(c) ==
    IF c.len = 0 THEN [ok |-> FALSE, entries |-> <<>>] ELSE env.archives[c.tag]

\* main.rs:122-125  bar.set_prefix(spec.to_string()), then
\* Index::new_cargo_default()?
WOpenIndex ==
    \E w \in Threads :
        /\ Alive /\ workers[w].pc = "start"
        /\ workers' = [workers EXCEPT ![w] =
              [(IF Fault(w, "index") THEN EndError(w, "index")
                ELSE [@ EXCEPT !.pc = "select"])
               EXCEPT !.prefix = PackageIdSpec_fmt(app.specs[w])]]
        /\ UNCHANGED <<app, index, env, cache_fs, disk, main, idx>>

\* main.rs:130-211  the crate is looked up and a version selected.
WSelect ==
    \E w \in Threads :
        /\ Alive /\ workers[w].pc = "select"
        /\ LET spec == app.specs[w]
           IN workers' = [workers EXCEPT ![w] =
                IF spec.name \notin DOMAIN index
                THEN EndLogged(w, Msg("could not find crate in the index"))
                ELSE LET krate == index[spec.name]
                         version_request == IF spec.version_req.some
                                            THEN spec.version_req.req ELSE STAR
                         versions == MatchingVersions(krate, version_request,
                                                      app.allow_yanked)
                     IN IF versions = <<>>
                        THEN EndLogged(w, NoMatchMessage(krate, version_request))
                        ELSE [@ EXCEPT !.pc = "probe",
                                       !.version = versions[1].version,
                                       !.output = OutputPath(versions[1].version)]]
        /\ UNCHANGED <<app, index, env, cache_fs, disk, main, idx>>

\* Mutant of WProbe: the lookup's error is thrown (`cache::lookup(..)?`).
WProbeThrows ==
    \E w \in Threads :
        /\ Alive /\ workers[w].pc = "probe"
        /\ LET cached == IF app.cache
                         THEN lookup(env.index_path, workers[w].version, cache_fs,
                                     Fault(w, "hash"))
                         ELSE Err("cache disabled by flag")
           IN workers' = [workers EXCEPT ![w] =
                IF ~cached.ok THEN [EndError(w, cached.err) EXCEPT !.cached = cached]
                ELSE [@ EXCEPT !.cached = cached,
                               !.pc = IF app.extract THEN "cache_open" ELSE "cache_copy"]]
        /\ UNCHANGED <<app, index, env, cache_fs, disk, main, idx>>

\* main.rs:213-221  the cache is probed; any failure leads to the download.
WProbe ==
    \E w \in Threads :
        /\ Alive /\ workers[w].pc = "probe"
        /\ LET cached == IF app.cache
                         THEN lookup(env.index_path, workers[w].version, cache_fs,
                                     Fault(w, "hash"))
                         ELSE Err("cache disabled by flag")
           IN workers' = [workers EXCEPT ![w] =
                [@ EXCEPT !.cached = cached,
                          !.pc = IF ~cached.ok THEN "fetch"
                                 ELSE IF app.extract THEN "cache_open"
                                 ELSE "cache_copy"]]
        /\ UNCHANGED <<app, index, env, cache_fs, disk, main, idx>>

\* std::fs::write / std::fs::copy to `output`, which must not be a directory.
WriteFile(d, output, content) ==
    LET at == Loc(output, <<>>)
    IN IF at \in DOMAIN d /\ d[at].kind = "dir" THEN d
       ELSE (at :> Node("file", content, NoTarget)) @@ d

CanWrite(d, output) ==
    LET at == Loc(output, <<>>) IN ~(at \in DOMAIN d /\ d[at].kind = "dir")

\* main.rs:236-240  std::fs::copy(path, &output)?
WCacheCopy ==
    \E w \in Threads :
        /\ Alive /\ workers[w].pc = "cache_copy"
        /\ LET path == workers[w].cached.val
               output == workers[w].output
           IN IF Fault(w, "fs") \/ path \notin DOMAIN cache_fs.files
                 \/ ~CanWrite(disk, output)
              THEN /\ workers' = [workers EXCEPT ![w] = EndError(w, "io")]
                   /\ disk' = disk
              ELSE /\ workers' = [workers EXCEPT ![w] =
                         [EndOk(w, "written") EXCEPT !.source = "cache",
                                                    !.data = cache_fs.files[path]]]
                   /\ disk' = WriteFile(disk, output, cache_fs.files[path])
        /\ UNCHANGED <<app, index, env, cache_fs, main, idx>>

\* main.rs:226-230  std::fs::File::open(path)?, read through the decoder.
WCacheOpen ==
    \E w \in Threads :
        /\ Alive /\ workers[w].pc = "cache_open"
        /\ LET path == workers[w].cached.val
           IN workers' = [workers EXCEPT ![w] =
                IF Fault(w, "fs") \/ path \notin DOMAIN cache_fs.files
                THEN EndError(w, "io")
                ELSE [@ EXCEPT !.pc = "unpack", !.source = "cache",
                               !.data = cache_fs.files[path]]]
        /\ UNCHANGED <<app, index, env, cache_fs, disk, main, idx>>

\* main.rs:246-260  the download: at most CRATE_SIZE_LIMIT bytes are read
\* into a buffer reserved for the advertised length, or for the limit.
WFetch ==
    \E w \in Threads :
        /\ Alive /\ workers[w].pc = "fetch"
        /\ LET resp == env.response
               len == resp.content_length
           IN workers' = [workers EXCEPT ![w] =
                IF Fault(w, "net") THEN EndError(w, "transport")
                ELSE [@ EXCEPT !.pc = "verify", !.source = "net",
                               !.capacity = IF len # NONE THEN len ELSE CRATE_SIZE_LIMIT,
                               !.data = Take(resp.body, CRATE_SIZE_LIMIT)]]
        /\ UNCHANGED <<app, index, env, cache_fs, disk, main, idx>>

\* Mutant of WVerify: the comparison of line 264 left out.
WVerifyUnchecked ==
    \E w \in Threads :
        /\ Alive /\ workers[w].pc = "verify"
        /\ workers' = [workers EXCEPT ![w].pc = IF app.extract THEN "unpack" ELSE "write"]
        /\ UNCHANGED <<app, index, env, cache_fs, disk, main, idx>>

\* main.rs:263-271  the checksum of the downloaded bytes is verified.
WVerify ==
    \E w \in Threads :
        /\ Alive /\ workers[w].pc = "verify"
        /\ LET calculated_checksum == Sha256(workers[w].data)
           IN workers' = [workers EXCEPT ![w] =
                IF calculated_checksum # workers[w].version.cksum
                THEN EndLogged(w, Msg("invalid checksum"))
                ELSE [@ EXCEPT !.pc = IF app.extract THEN "unpack" ELSE "write"]]
        /\ UNCHANGED <<app, index, env, cache_fs, disk, main, idx>>

\* main.rs:284-288  std::fs::write(&output, data)?
WWrite ==
    \E w \in Threads :
        /\ Alive /\ workers[w].pc = "write"
        /\ LET output == workers[w].output
           IN IF Fault(w, "fs") \/ ~CanWrite(disk, output)
              THEN /\ workers' = [workers EXCEPT ![w] = EndError(w, "io")]
                   /\ disk' = disk
              ELSE /\ workers' = [workers EXCEPT ![w] = EndOk(w, "written")]
                   /\ disk' = WriteFile(disk, output, workers[w].data)
        /\ UNCHANGED <<app, index, env, cache_fs, main, idx>>

\* unpack.rs:10-13  create_dir_all(&output)?, then archive.entries()?
WUnpackBegin ==
    \E w \in Threads :
        /\ Alive /\ workers[w].pc = "unpack"
        /\ LET output == workers[w].output
               at == Loc(output, <<>>)
               archive == Decode(workers[w].data)
           IN IF Fault(w, "fs") \/ (at \in DOMAIN disk /\ disk[at].kind # "dir")
              THEN /\ workers' = [workers EXCEPT ![w] = EndError(w, "io")]
                   /\ disk' = disk
              ELSE /\ workers' = [workers EXCEPT ![w] =
                         [@ EXCEPT !.pc = "entries", !.i = 1,
                                   !.entries = archive.entries,
                                   !.bad_archive = ~archive.ok,
                                   !.touched = IF at \in DOMAIN disk THEN {}
                                               ELSE {[at |-> at, entry |-> 0]}]]
                   /\ disk' = IF at \in DOMAIN disk THEN disk ELSE (at :> DirNode) @@ disk
        /\ UNCHANGED <<app, index, env, cache_fs, main, idx>>

\* unpack.rs:14-29  one entry of the archive is checked and unpacked.
WUnpackEntry ==
    \E w \in Threads :
        /\ Alive /\ workers[w].pc = "entries"
        /\ workers[w].i <= Len(workers[w].entries)
        /\ LET i == workers[w].i
               entry == workers[w].entries[i]
               res == UnpackEntry(disk, workers[w].output, BaseName(workers[w].version),
                                  entry, Fault(w, "entry"))
               touched == workers[w].touched
                            \cup {[at |-> at, entry |-> i] : at \in res.touched}
           IN /\ workers' = [workers EXCEPT ![w] =
                    IF res.status = "ok"
                    THEN [@ EXCEPT !.i = i + 1, !.touched = touched,
                                   !.materialized = Append(@, i)]
                    ELSE [EndError(w, res.status) EXCEPT
                             !.touched = touched,
                             !.err_path = IF res.status = "unsafe path" THEN entry.path
                                          ELSE <<>>]]
              /\ disk' = res.disk
        /\ UNCHANGED <<app, index, env, cache_fs, main, idx>>

\* unpack.rs:14  entries.next() finds the end of the archive, or cannot
\* read it; main.rs:232-234 and 280-282.
WUnpackEnd ==
    \E w \in Threads :
        /\ Alive /\ workers[w].pc = "entries"
        /\ workers[w].i > Len(workers[w].entries)
        /\ workers' = [workers EXCEPT ![w] =
              IF workers[w].bad_archive THEN EndError(w, "io") ELSE EndOk(w, "extracted")]
        /\ UNCHANGED <<app, index, env, cache_fs, disk, main, idx>>

\* Another process changes the cargo cache: a file is replaced or removed.
CacheChanges ==
    /\ Alive /\ env.cache_volatile
    /\ \E f \in DOMAIN cache_fs.files :
         \/ cache_fs' = [cache_fs EXCEPT !.files =
               [g \in DOMAIN cache_fs.files |->
                   IF g = f THEN Content(cache_fs.files[f].len, 2)
                   ELSE cache_fs.files[g]]]
            /\ cache_fs.files[f].tag # 2
         \/ cache_fs' = [cache_fs EXCEPT !.files =
               [g \in DOMAIN cache_fs.files \ {f} |-> cache_fs.files[g]]]
    /\ UNCHANGED <<app, index, env, disk, main, idx, workers>>

\* Mutant of LookupAllProbe: the error of a failing root is thrown
\* (`lookup(url, version)?`), which ends the scan.
LookupAllProbeThrows ==
    \E w \in Threads :
        /\ workers[w].pc = "lookup_all"
        /\ Len(workers[w].probes) < Len(workers[w].urls)
        /\ LET url == workers[w].urls[Len(workers[w].probes) + 1]
               found == lookup(url, workers[w].version, cache_fs, Fault(w, "hash"))
           IN workers' = [workers EXCEPT ![w] =
                [(IF found.ok THEN EndOk(w, "") ELSE EndError(w, found.err))
                    EXCEPT !.cached = found, !.probes = Append(@, url)]]
        /\ UNCHANGED <<app, index, env, cache_fs, disk, main, idx>>

\* cache.rs:85-90  one round of lookup_all's loop: the next root of `urls`
\* is probed; Ok(path) is returned, an error is logged and the loop goes on.
\* The caller's frame is workers[w]: `urls`, the roots probed so far, and
\* the value returned.
LookupAllProbe ==
    \E w \in Threads :
        /\ workers[w].pc = "lookup_all"
        /\ Len(workers[w].probes) < Len(workers[w].urls)
        /\ LET url == workers[w].urls[Len(workers[w].probes) + 1]
               found == lookup(url, workers[w].version, cache_fs, Fault(w, "hash"))
           IN workers' = [workers EXCEPT ![w] =
                IF found.ok
                THEN [EndOk(w, "") EXCEPT !.cached = found, !.probes = Append(@, url)]
                ELSE [@ EXCEPT !.probes = Append(@, url)]]
        /\ UNCHANGED <<app, index, env, cache_fs, disk, main, idx>>

\* cache.rs:91-96  the loop has run out of roots: the error is thrown.
LookupAllThrow ==
    \E w \in Threads :
        /\ workers[w].pc = "lookup_all"
        /\ Len(workers[w].probes) = Len(workers[w].urls)
        /\ workers' = [workers EXCEPT ![w] =
              [EndError(w, "failed finding cached file in registries")
                  EXCEPT !.cached = Err("failed finding cached file in registries")]]
        /\ UNCHANGED <<app, index, env, cache_fs, disk, main, idx>>

\* cache.rs:83-97  a call of cache::lookup_all, which App::run does not make.
NextLookupAll == LookupAllProbe \/ LookupAllThrow

Next ==
    \/ ParseArgs
    \/ RunStart \/ IndexOpen \/ IndexUpdate \/ Spawn \/ IndexReturn
    \/ JoinIndex \/ JoinWorker \/ RunReturn \/ ProcessExit
    \/ WOpenIndex \/ WSelect \/ WProbe
    \/ WCacheCopy \/ WCacheOpen
    \/ WFetch \/ WVerify \/ WWrite
    \/ WUnpackBegin \/ WUnpackEntry \/ WUnpackEnd
    \/ CacheChanges

\* -------------------------------------------------------- initial states
\* Version strings of the index: 1.1.0, 1.2.0, 1.3.0-beta, 2.0.0 and the
\* non-semver 1.0.
\* Crate names, character by character.
Foo == <<"f", "o", "o">>
Bar == <<"b", "a", "r">>

V110 == <<"1", ".", "1", ".", "0">>
V120 == <<"1", ".", "2", ".", "0">>
V130beta == <<"1", ".", "3", ".", "0", "-", "beta">>
V200 == <<"2", ".", "0", ".", "0">>
VersionTexts == {V110, V120, V130beta, V200, <<"1", ".", "0">>}

\* The bytes of the published artifact, and the checksum the index records.
Artifact == Content(3, 1)
RecordPool == {Record(Foo, v, Sha256(Artifact), y) : v \in VersionTexts, y \in BOOLEAN}

\* Requests: none, ^1.2, =1.3.0-beta, >=1.1.0 with <2.0.0, ~2.0, ^9.
ReqPool ==
    { None,
      Some(<<Cmp("Caret", 1, 2, NONE, <<>>)>>),
      Some(<<Cmp("Exact", 1, 3, 0, <<Alnum("beta")>>)>>),
      Some(<<Cmp("GreaterEq", 1, 1, 0, <<>>), Cmp("Less", 2, 0, 0, <<>>)>>),
      Some(<<Cmp("Tilde", 2, 0, NONE, <<>>)>>),
      Some(<<Cmp("Caret", 9, NONE, NONE, <<>>)>>) }

\* Tar entries: well-formed files and directories, a symlink to a directory
\* outside the destination and one to a sibling, a file below the symlink,
\* paths with a parent-directory or a root segment, a path without the
\* <name>-<version> prefix.
EntryPool(base) ==
    { Entry(<<base, <<"src">>, <<"lib.rs">>>>, "file", NoTarget),
      Entry(<<base>>, "dir", NoTarget),
      Entry(<<base, <<"src">>>>, "dir", NoTarget),
      Entry(<<base, <<"x">>>>, "symlink", LinkTarget(TRUE, <<<<"outside">>>>)),
      Entry(<<base, <<"x">>>>, "symlink", LinkTarget(FALSE, <<<<"src">>>>)),
      Entry(<<base, <<"x">>, <<"evil">>>>, "file", NoTarget),
      Entry(<<<<"..">>, <<"..">>, <<"etc">>, <<"passwd">>>>, "file", NoTarget),
      Entry(<<base, <<"..">>, <<"evil">>>>, "file", NoTarget),
      Entry(<<<<"/">>, <<"etc">>, <<"passwd">>>>, "file", NoTarget),
      Entry(<<<<"other">>, <<"lib.rs">>>>, "file", NoTarget) }

Archive(entries) == [ok |-> TRUE, entries |-> entries]

\* The registry's local index path and the cache directory derived from it.
IndexPath == <<"home", ".cargo", "registry", "index", "github.com-1ecc">>
CacheDir == <<"home", ".cargo", "registry", "cache", "github.com-1ecc">>

ColdCache == [dirs |-> {CacheDir}, files |-> <<>>]
CacheWith(version, content) ==
    [dirs |-> {CacheDir}, files |-> (CacheFile(CacheDir, CrateFileName(version)) :> content)]

Response(content_length, body) == [content_length |-> content_length, body |-> body]

Foo120 == Record(Foo, V120, Sha256(Artifact), FALSE)
Foo110 == Record(Foo, V110, Sha256(Artifact), FALSE)

\* A plain run: `cargo dl foo`, the artifact served as published.
BaseApp ==
    [extract |-> FALSE, output |-> <<>>, specs |-> <<PackageIdSpec(Foo, None)>>,
     allow_yanked |-> FALSE, cache |-> TRUE, update_index |-> TRUE]
BaseEnv ==
    [index_path |-> IndexPath,
     response |-> Response(3, Artifact),
     archives |-> (1 :> Archive(<<Entry(<<BaseName(Foo120), <<"src">>, <<"lib.rs">>>>,
                                        "file", NoTarget)>>))
                  @@ (2 :> [ok |-> FALSE, entries |-> <<>>]),
     faults |-> {},
     cache_volatile |-> FALSE,
     upstream |-> <<>>]
Scenario(a, ix, e, cfs) == [app |-> a, index |-> ix, env |-> e, cache_fs |-> cfs]
Base == Scenario(BaseApp, Foo :> <<Foo110, Foo120>>, BaseEnv, ColdCache)

\* Runs that together take every step of the pipeline: with and without
\* --extract, from the network and from the cache, the cache changing or not.
CoverScenarios ==
    { [Base EXCEPT !.app.extract = x, !.cache_fs = c, !.env.cache_volatile = v] :
        x \in BOOLEAN, c \in {ColdCache, CacheWith(Foo120, Artifact)}, v \in BOOLEAN }

InitFrom(scenarios) ==
    \E s \in scenarios : Setup(s.app, s.index, s.env, s.cache_fs)

\* Runs of several specs: a crate that resolves, one that the index does not
\* hold, one whose request nothing matches; with and without --output and
\* --extract; an archive holding an unsafe path; and at most one transport
\* or index failure.
SpecPool ==
    { PackageIdSpec(Foo, None), PackageIdSpec(Bar, None),
      PackageIdSpec(Foo, Some(<<Cmp("Caret", 9, NONE, NONE, <<>>)>>)) }

UnsafeArchive ==
    Archive(<<Entry(<<BaseName(Foo120), <<"src">>, <<"lib.rs">>>>, "file", NoTarget),
              Entry(<<<<"..">>, <<"..">>, <<"etc">>, <<"passwd">>>>, "file", NoTarget)>>)

RunScenarios ==
    { [Base EXCEPT !.app.specs = sp, !.app.output = o, !.app.cache = FALSE,
                   !.app.extract = x[1], !.env.archives[1] = x[2], !.env.faults = f] :
        sp \in SeqsUpTo(SpecPool, MaxSpecs) \ {<<>>},
        o \in {<<>>, <<"out">>},
        x \in {<<FALSE, BaseEnv.archives[1]>>, <<TRUE, BaseEnv.archives[1]>>,
               <<TRUE, UnsafeArchive>>},
        f \in {{}, {<<0, "index_open">>}, {<<0, "index_update">>}}
              \cup {{<<w, "net">>} : w \in 1..MaxSpecs} }

Init == InitFrom(CoverScenarios \cup RunScenarios)
Spec == Init /\ [][Next]_vars

\* The index of the end-to-end example: 1.1.0, 1.2.0, 1.3.0-beta and 2.0.0,
\* none yanked.
FourVersions ==
    <<Foo110, Foo120, Record(Foo, V130beta, Sha256(Artifact), FALSE),
      Record(Foo, V200, Sha256(Artifact), FALSE)>>

\* Resolution of one spec against every short list of version records, and
\* against the four versions of the example.
ResolveScenarios ==
    { [Base EXCEPT !.app.specs = <<PackageIdSpec(Foo, r)>>, !.app.allow_yanked = a,
                   !.app.cache = FALSE, !.index = Foo :> k] :
        r \in ReqPool, a \in BOOLEAN,
        k \in SeqsUpTo(RecordPool, MaxVersions) \cup {FourVersions} }

InitResolve == InitFrom(CoverScenarios \cup ResolveScenarios)
SpecResolve == InitResolve /\ [][Next]_vars

\* One spec against every state of the cache and every answer of the server.
BigArtifact == Content(CRATE_SIZE_LIMIT + 1, 1)
CacheScenarios ==
    { [Base EXCEPT !.app.cache = c, !.app.extract = x, !.index = Foo :> <<k>>,
                   !.env.index_path = p, !.cache_fs = cfs, !.env.response = r,
                   !.env.faults = f, !.env.cache_volatile = v] :
        c \in BOOLEAN, x \in BOOLEAN,
        k \in {Foo120, Record(Foo, V120, Sha256(BigArtifact), FALSE)},
        p \in {IndexPath, <<"index", "github.com-1ecc">>, <<"home", "git", "checkouts">>,
               <<"registry", "index", "github.com-1ecc">>},
        cfs \in {ColdCache, [dirs |-> {}, files |-> <<>>], CacheWith(Foo120, Artifact),
                 CacheWith(Foo120, Content(3, 2)), CacheWith(Foo120, Content(0, 1))},
        r \in {Response(n, b) : n \in {NONE, 3, CRATE_SIZE_LIMIT + 1},
                                b \in {Artifact, Content(3, 2), Content(0, 1), BigArtifact}},
        f \in {{}, {<<1, "hash">>}, {<<1, "net">>}, {<<1, "fs">>}},
        v \in BOOLEAN }

InitCache == InitFrom(CoverScenarios \cup CacheScenarios)
SpecCache == InitCache /\ [][Next]_vars

\* Extraction of every short archive, downloaded or found in the cache.
UnpackScenarios ==
    { [Base EXCEPT !.app.extract = TRUE, !.app.cache = c, !.app.output = o,
                   !.cache_fs = CacheWith(Foo120, Artifact),
                   !.env.archives[1] = Archive(es), !.env.faults = f] :
        c \in BOOLEAN, o \in {<<>>, <<"out">>},
        es \in SeqsUpTo(EntryPool(BaseName(Foo120)), MaxEntries),
        f \in {{}, {<<1, "entry">>}, {<<1, "fs">>}} }

InitUnpack == InitFrom(CoverScenarios \cup UnpackScenarios)
SpecUnpack == InitUnpack /\ [][Next]_vars

\* Calls of cache::lookup_all for foo 1.2.0 over every list of up to MaxRoots
\* registry roots: two registries with a cache directory, one whose cache
\* directory is missing and a path that is no registry index; each cache
\* holds the artifact, other bytes under its name, or nothing; reading a
\* cache file works or fails.
OtherIndexPath == <<"home", ".cargo", "registry", "index", "example.com-9f3a">>
OtherCacheDir == <<"home", ".cargo", "registry", "cache", "example.com-9f3a">>
RootPool ==
    { IndexPath, OtherIndexPath,
      <<"home", ".cargo", "registry", "index", "gone-0000">>,
      <<"home", "git", "checkouts">> }
CachePool ==
    { [dirs |-> {CacheDir, OtherCacheDir},
       files |-> [f \in {CacheFile(d, CrateFileName(Foo120)) : d \in held} |->
                     IF f.dir \in good THEN Artifact ELSE Content(3, 2)]] :
        held \in SUBSET {CacheDir, OtherCacheDir},
        good \in SUBSET {CacheDir, OtherCacheDir} }

InitLookupAll ==
    \E urls \in SeqsUpTo(RootPool, MaxRoots), cfs \in CachePool,
       f \in {{}, {<<1, "hash">>}} :
        /\ app = BaseApp
        /\ index = Base.index
        /\ env = [BaseEnv EXCEPT !.faults = f]
        /\ cache_fs = cfs
        /\ disk = EmptyDisk
        /\ main = [pc |-> "call", args |-> <<>>, invalid |-> NoInvalid,
                   logged_error |-> FALSE, joining |-> 0, result |-> ""]
        /\ idx = [pc |-> "idle", spawned |-> 0, updates |-> 0, result |-> ""]
        /\ workers = <<[IdleWorker EXCEPT !.pc = "lookup_all", !.version = Foo120,
                                          !.urls = urls]>>
SpecLookupAll == InitLookupAll /\ [][NextLookupAll]_vars

\* Command lines as typed.  Names: every short string over a letter, a
\* digit, '-', '_', a letter outside ASCII and the characters '/' and '.',
\* and foo.  Constraints: ^1.2, 1.2, =1.3.0-beta, >=1.1.0 and <2.0.0 with
\* and without the space, *, 1.*, the empty text, " 1", 1.2-beta, bar.
NameTexts == SeqsUpTo({"f", "9", "-", "_", "U+00E9", "/", "."}, MaxNameLen) \cup {Foo}
ReqTexts ==
    { <<"^", "1", ".", "2">>,
      <<"1", ".", "2">>,
      <<"=", "1", ".", "3", ".", "0", "-", "beta">>,
      <<">", "=", "1", ".", "1", ".", "0", ",", " ", "<", "2", ".", "0", ".", "0">>,
      <<">", "=", "1", ".", "1", ".", "0", ",", "<", "2", ".", "0", ".", "0">>,
      <<"*">>,
      <<"1", ".", "*">>,
      <<>>,
      <<" ", "1">>,
      <<"1", ".", "2", "-", "beta">>,
      <<"b", "a", "r">> }

\* One token of any kind, or several out of: foo, foo@1.2, f/, foo@bar;
\* or none at all.
CommandLines ==
    {<<t>> : t \in NameTexts \cup {n \o <<"@">> \o r : n \in NameTexts, r \in ReqTexts}}
    \cup SeqsUpTo({Foo, Foo \o <<"@", "1", ".", "2">>, <<"f", "/">>,
                   Foo \o <<"@", "b", "a", "r">>}, MaxSpecs)

InitParse ==
    \/ InitFrom(CoverScenarios)
    \/ \E args \in CommandLines :
          SetupArgs(args, [BaseApp EXCEPT !.cache = FALSE], Base.index, BaseEnv, ColdCache)
SpecParse == InitParse /\ [][Next]_vars

\* ------------------------------------------------------ version resolution
\* What the claims about resolution speak of, for the spec of worker w.
RequestOf(w) ==
    IF app.specs[w].version_req.some THEN app.specs[w].version_req.req ELSE STAR
KrateOf(w) == index[app.specs[w].name]
Known(w) == app.specs[w].name \in DOMAIN index
Resolved(w) == workers[w].pc \notin {"idle", "start", "select"}
Selected(w) == workers[w].version # NoVersion
NumOf(version) == ParseVersion(version.vers)

\* The records of w's crate that parse as semantic versions and satisfy the
\* request, by position in the index.
Satisfying(w) ==
    {i \in 1..Len(KrateOf(w)) :
        NumOf(KrateOf(w)[i]).ok /\ Matches(RequestOf(w), NumOf(KrateOf(w)[i]))}
Candidates(w) ==
    {i \in Satisfying(w) : app.allow_yanked \/ ~KrateOf(w)[i].yanked}
YankedSatisfying(w) == {i \in Satisfying(w) : KrateOf(w)[i].yanked}

\* C1: with allow-yanked unset the version a worker selects is never a
\* yanked record; a yanked record is selected only with allow-yanked set.
C1_NeverYanked ==
    \A w \in Threads :
        Selected(w) =>
            /\ workers[w].version \in Range(KrateOf(w))
            /\ (workers[w].version.yanked => app.allow_yanked)

\* A worker selected a version although a higher yanked record satisfied
\* the request, allow-yanked unset.
C1_Witness ==
    \E w \in Threads :
        /\ Selected(w) /\ ~app.allow_yanked
        /\ \E i \in YankedSatisfying(w) :
              CmpVersion(NumOf(KrateOf(w)[i]), NumOf(workers[w].version)) > 0

\* C2: the selected version is a candidate (passes the yank filter, parses,
\* satisfies the request) and no candidate has a higher precedence.
C2_SemverMaximum ==
    \A w \in Threads :
        Selected(w) =>
            /\ \E i \in Candidates(w) : KrateOf(w)[i] = workers[w].version
            /\ \A i \in Candidates(w) :
                  CmpVersion(NumOf(KrateOf(w)[i]), NumOf(workers[w].version)) <= 0

\* The selected version is not the first candidate of the index: a lower
\* candidate stands before it.
C2_Witness ==
    \E w \in Threads :
        /\ Selected(w)
        /\ \E i, j \in Candidates(w) :
              /\ i < j /\ KrateOf(w)[j] = workers[w].version
              /\ CmpVersion(NumOf(KrateOf(w)[i]), NumOf(KrateOf(w)[j])) < 0

\* C3: with no candidate left the worker ends in the reported failure "no
\* matching version found", nothing selected, downloaded, written or
\* extracted; the message carries a hint exactly when a yanked record
\* satisfies the request, and the hint names the highest such record.
C3_NoMatch ==
    \A w \in Threads :
        (Resolved(w) /\ Known(w) /\ Candidates(w) = {}) =>
            /\ workers[w].pc = "done" /\ workers[w].result = "logged"
            /\ workers[w].msg.text = "no matching version found"
            /\ ~Selected(w)
            /\ workers[w].source = "" /\ workers[w].touched = {}
            /\ (NumSpecs = 1 => \A at \in DOMAIN disk : at.root = FsRoot.root)
            /\ workers[w].msg.hint = (YankedSatisfying(w) # {})
            /\ workers[w].msg.hint =>
                  /\ \E i \in YankedSatisfying(w) : KrateOf(w)[i] = workers[w].msg.yanked
                  /\ \A i \in YankedSatisfying(w) :
                        CmpVersion(NumOf(KrateOf(w)[i]), NumOf(workers[w].msg.yanked)) <= 0

\* A worker ended without a match and with a hint, two yanked records of
\* different versions satisfying the request, the lower one first.
C3_Witness ==
    \E w \in Threads :
        /\ workers[w].result = "logged" /\ workers[w].msg.hint
        /\ \E i, j \in YankedSatisfying(w) :
              /\ i < j
              /\ CmpVersion(NumOf(KrateOf(w)[i]), NumOf(KrateOf(w)[j])) < 0

\* ------------------------------------------------------ cache and download
\* C4: on the network path, downloaded bytes whose SHA-256 differs from the
\* recorded checksum end the worker in the failure "invalid checksum"; it
\* never reaches the write or the extraction and nothing is put on disk.
C4_IntegrityFailure ==
    \A w \in Threads :
        (workers[w].source = "net" /\ Sha256(workers[w].data) # workers[w].version.cksum) =>
            /\ workers[w].pc \in {"verify", "done"}
            /\ workers[w].pc = "done" =>
                  workers[w].result = "logged" /\ workers[w].msg.text = "invalid checksum"
            /\ workers[w].touched = {}
            /\ (NumSpecs = 1 => \A at \in DOMAIN disk : at.root = FsRoot.root)

\* A download of the artifact's length but of other bytes was refused.
C4_Witness ==
    \E w \in Threads :
        /\ workers[w].source = "net" /\ workers[w].pc = "done"
        /\ workers[w].msg.text = "invalid checksum"
        /\ workers[w].data.len = Artifact.len /\ workers[w].data # Artifact

\* The cache file derived for w's version, when the index path has the
\* expected structure <root>/registry/index/<dirname>.
DerivedCacheFile(w) ==
    LET p == env.index_path
        n == Len(p)
    IN CacheFile(SubSeq(p, 1, n - 3) \o <<"registry", "cache", p[n]>>,
                 CrateFileName(workers[w].version))
DerivedFileValid(w) ==
    LET p == env.index_path
        n == Len(p)
    IN /\ n >= 3 /\ p[n - 1] = "index" /\ p[n - 2] = "registry"
       /\ DerivedCacheFile(w) \in DOMAIN cache_fs.files
       /\ Sha256(cache_fs.files[DerivedCacheFile(w)]) = workers[w].version.cksum

\* The step in which worker w probes the cache with cache::lookup.
ProbeStep(w) == workers[w].pc = "probe" /\ workers'[w].pc # "probe" /\ app.cache

\* C5 as claimed: cache::lookup returns a path if and only if the derived
\* cache file exists and its SHA-256 equals the recorded checksum.
C5_LookupIff ==
    [][\A w \in Threads :
          ProbeStep(w) => (workers'[w].cached.ok <=> DerivedFileValid(w))]_vars

\* C5 as amended: cache::lookup returns a path, the derived cache file, if
\* and only if that file exists, can be read, and its SHA-256 equals the
\* recorded checksum; a missing file or a different checksum yields an error.
C5_LookupIffReadable ==
    [][\A w \in Threads :
          ProbeStep(w) =>
             /\ workers'[w].cached.ok <=> (DerivedFileValid(w) /\ ~Fault(w, "hash"))
             /\ workers'[w].cached.ok => workers'[w].cached.val = DerivedCacheFile(w)]_vars

\* The lookup refused a cache file of the artifact's length whose bytes differ.
C5_Witness ==
    \E w \in Threads :
        /\ workers[w].cached.err = "invalid checksum"
        /\ DerivedCacheFile(w) \in DOMAIN cache_fs.files
        /\ cache_fs.files[DerivedCacheFile(w)].len = Artifact.len

\* C6: a failed cache probe (cache disabled, unexpected or missing cache
\* directory, missing file, checksum mismatch) takes the worker to the
\* download, and a worker whose probe failed never ends without having
\* reached the download: the probe's error is no terminal outcome.
C6_ProbeFailureFetches ==
    [][\A w \in Threads :
          /\ (workers[w].pc = "probe" /\ workers'[w].pc # "probe"
                /\ ~workers'[w].cached.ok) =>
                (workers'[w].pc = "fetch" /\ workers'[w].result = "")
          /\ (workers'[w].pc = "done" /\ workers'[w].cached.err # "") =>
                (workers'[w].source = "net" \/ workers'[w].err = "transport")]_vars

\* A worker is at the download after its cache file failed the checksum.
C6_Witness ==
    \E w \in Threads :
        workers[w].pc = "fetch" /\ workers[w].cached.err = "invalid checksum"

\* ------------------------------------------------------------- extraction
\* C7: every place unpack creates or modifies lies inside the destination
\* directory of its worker.
C7_NeverEscapes ==
    \A w \in Threads :
        \A t \in workers[w].touched : t.at.root = workers[w].output

\* A path with a parent-directory, root or prefix segment.
UnsafePath(path) == \E k \in 1..Len(path) : path[k] \in {<<"..">>, <<"/">>, <<"C:">>}

\* Position of the first entry with such a path; past the end when none has.
FirstUnsafe(entries) ==
    LET bad == {k \in 1..Len(entries) : UnsafePath(entries[k].path)}
    IN IF bad = {} THEN Len(entries) + 1
       ELSE CHOOSE k \in bad : \A j \in bad : k <= j

\* C8: entries are unpacked in archive order; the first entry with an unsafe
\* path ends the unpack with the error naming that path; nothing is written
\* for it or for an entry behind it, and exactly the entries before it have
\* been materialized.
C8_AbortAtFirstUnsafe ==
    \A w \in Threads :
        LET es == workers[w].entries
            m == workers[w].materialized
            first == FirstUnsafe(es)
        IN /\ m = [k \in 1..Len(m) |-> k]
           /\ Len(m) < first
           /\ \A t \in workers[w].touched : t.entry < first /\ t.entry <= Len(m) + 1
           /\ workers[w].err = "unsafe path" =>
                 /\ first <= Len(es) /\ Len(m) = first - 1
                 /\ workers[w].err_path = es[first].path
                 /\ workers[w].result = "error"
           /\ (workers[w].pc = "done" /\ first <= Len(es) /\ Len(m) = first - 1) =>
                 workers[w].err = "unsafe path"
           /\ workers[w].result = "ok" => (first > Len(es) /\ Len(m) = Len(es))

\* An unpack wrote its first entry and was ended by the second, unsafe one.
C8_Witness ==
    \E w \in Threads :
        /\ workers[w].err = "unsafe path" /\ workers[w].materialized = <<1>>
        /\ \E t \in workers[w].touched : t.entry = 1

\* -------------------------------------------------------- the run's result
Returned ==
    /\ main.pc \in {"returned", "exited"}
    /\ main.result \notin {"invalid value", "missing argument"}
Ended(w) == workers[w].pc = "done"
SomeSpecFailed == \E w \in Threads : Ended(w) /\ workers[w].result # "ok"
EverySpecSucceeded == \A w \in Threads : Ended(w) /\ workers[w].result = "ok"
IndexFailed == idx.result = "error"
OutputWithSeveral == NumSpecs > 1 /\ app.output # <<>>

\* C9 as claimed: App::run returns an error if and only if a spec's
\* pipeline ended in failure or the index open/update step failed, and
\* success exactly when every spec's pipeline succeeded.
C9_ErrorIffFailure ==
    Returned =>
        /\ main.result # "ok" <=> (SomeSpecFailed \/ IndexFailed)
        /\ main.result = "ok" <=> EverySpecSucceeded

\* C9 as amended: App::run returns an error if and only if a spec's pipeline
\* ended in failure, the index open/update step failed, or --output was
\* given with more than one spec; success exactly when every spec succeeded.
C9_ErrorIffFailureOrOutput ==
    Returned =>
        /\ main.result # "ok" <=> (SomeSpecFailed \/ IndexFailed \/ OutputWithSeveral)
        /\ main.result = "ok" <=> EverySpecSucceeded

\* A run of two specs returned an error, one spec failed and the other
\* wrote its artifact.
C9_Witness ==
    /\ Returned /\ main.result = "LoggedError"
    /\ \E v, w \in Threads :
          /\ workers[v].result = "logged"
          /\ workers[w].result = "ok" /\ Loc(workers[w].output, <<>>) \in DOMAIN disk

\* C10: App::run does not return before every spawned worker has ended.
C10_ReturnsAfterAllWorkers ==
    Returned => \A w \in 1..idx.spawned : Ended(w)

\* ---------------------------------------------------- failure reporting
\* A spec's failure is reported when its worker finished the progress bar
\* with the failure's message (a LoggedError), or when run returned the
\* worker's error with the context "could not acquire <spec>".
Failed(w) == Ended(w) /\ workers[w].result # "ok"
Reported(w) ==
    \/ workers[w].result = "logged" /\ workers[w].msg.text # ""
    \/ main.result = "could not acquire" /\ main.joining = w

\* C11: when run has returned, the failure of every spec that failed has
\* been reported, whatever the other specs did.
C11_EveryFailureReported ==
    Returned => \A w \in Threads : Failed(w) => Reported(w)

\* ------------------------------------------------------- output paths
\* Worker w is about to write below its output path, or in the middle of it:
\* its next step copies the cached file, writes the downloaded bytes, creates
\* the output directory or unpacks an entry into it.
Writing(w) == workers[w].pc \in {"cache_copy", "write", "unpack", "entries"}

\* C12: no two workers write to the same output path at the same time.
C12_ExclusiveOutput ==
    \A v, w \in Threads :
        (v # w /\ Writing(v) /\ Writing(w)) => workers[v].output # workers[w].output

\* ------------------------------------------------------- index update
\* How often the run is to update the index.
UpdatesDue == IF app.update_index THEN 1 ELSE 0

\* The index is updated at most once, and never with --no-index-update;
\* once a worker is spawned the update is over.
C13_UpdateOnceBeforeWorkers ==
    /\ idx.updates <= UpdatesDue
    /\ \A w \in Threads : workers[w].pc # "idle" => idx.updates = UpdatesDue

NamePart(t) == IF IndexOf(t, "@", 1) = 0 THEN t ELSE SubSeq(t, 1, IndexOf(t, "@", 1) - 1)

\* A character that is neither alphanumeric nor '-' nor '_'.
Foreign(c) == ~is_alphanumeric(c) /\ c # "-" /\ c # "_"
HasForeign(n) == \E k \in 1..Len(n) : Foreign(n[k])
FirstForeign(n) ==
    CHOOSE k \in 1..Len(n) : Foreign(n[k]) /\ \A j \in 1..(k - 1) : ~Foreign(n[j])

\* The command line has been parsed; token i was reached when no token
\* before it was refused; every token was accepted when none was refused.
ArgsParsed == main.pc # "args" /\ main.args # <<>>
Reached(i) == main.invalid.arg = 0 \/ main.invalid.arg >= i
Accepted == ArgsParsed /\ main.invalid.arg = 0

\* C14: a name with a character other than an alphanumeric, '-' or '_' is
\* refused with InvalidCharacter(c, i), c the first such character and i its
\* zero-based index; a name without one is parsed, and formatting the parsed
\* name gives the same string.
C14_CrateNameParsing ==
    ArgsParsed =>
        \A i \in 1..Len(main.args) :
            Reached(i) =>
                LET n == NamePart(main.args[i])
                IN IF HasForeign(n)
                   THEN main.invalid = [arg |-> i, error |-> "CrateName",
                                        char |-> n[FirstForeign(n)],
                                        index |-> FirstForeign(n) - 1]
                   ELSE /\ ~(main.invalid.arg = i /\ main.invalid.error = "CrateName")
                        /\ Accepted =>
                              /\ app.specs[i].name = n
                              /\ CrateName_fmt(app.specs[i].name) = n
                              /\ (n = main.args[i] /\ workers[i].pc \notin {"idle", "start"})
                                    => workers[i].prefix = n

\* The name ./ was refused for its first character, not for its second.
C14_Witness ==
    /\ main.pc = "exited" /\ NamePart(main.args[1]) = <<".", "/">>
    /\ main.invalid = [arg |-> 1, error |-> "CrateName", char |-> ".", index |-> 0]

\* A string that matches ^[A-Za-z0-9_-]+$.
AsciiName(n) ==
    /\ n # <<>>
    /\ \A k \in 1..Len(n) : n[k] \in AsciiLetters \cup AsciiDigits \cup {"-", "_"}

\* C15: a string is accepted as a package name, bare or before '@', exactly
\* when it matches ^[A-Za-z0-9_-]+$; the empty string and any string with
\* another character are refused.
C15_NameMatchesRegex ==
    ArgsParsed =>
        \A i \in 1..Len(main.args) :
            Reached(i) =>
                (AsciiName(NamePart(main.args[i]))
                    <=> ~(main.invalid.arg = i /\ main.invalid.error = "CrateName"))

\* ------------------------------------------------------------ round trip
\* C16: every token that parses is reproduced exactly when its parsed spec
\* is formatted, as the worker does for the prefix of its progress bar.
C16_RoundTrip ==
    Accepted =>
        \A w \in Threads :
            workers[w].pc \notin {"idle", "start"} => workers[w].prefix = main.args[w]

\* ------------------------------------------------------------- fetch cap
\* C17: whatever the server answers, a worker that downloaded holds at most
\* CRATE_SIZE_LIMIT bytes and reserved at most CRATE_SIZE_LIMIT bytes for
\* its buffer.
C17_FetchWithinCap ==
    \A w \in Threads :
        workers[w].source = "net" =>
            /\ workers[w].data.len <= CRATE_SIZE_LIMIT
            /\ workers[w].capacity <= CRATE_SIZE_LIMIT

\* ------------------------------------------- --output with several specs
\* Nothing has been done for any spec: the index thread never ran, no
\* worker was spawned and the filesystem is as it was.
NothingDone ==
    /\ idx = [pc |-> "idle", spawned |-> 0, updates |-> 0, result |-> ""]
    /\ \A w \in DOMAIN workers : workers[w] = IdleWorker
    /\ disk = EmptyDisk

\* C18: with --output and more than one spec, as soon as run has started it
\* has failed with 'cannot use --output with multiple crates', and nothing
\* has been opened, updated, spawned, resolved, downloaded or written.
C18_OutputWithSeveralFails ==
    (OutputWithSeveral /\ main.pc \notin {"args", "start"}) =>
        /\ main.pc \in {"returned", "exited"}
        /\ main.result = "cannot use --output with multiple crates"
        /\ NothingDone

\* A run of two specs with --output has ended.
C18_Witness ==
    /\ NumSpecs = 2 /\ app.output # <<>>
    /\ main.pc = "exited"
    /\ main.result = "cannot use --output with multiple crates"

\* ---------------------------------------------------------- pre-releases
\* The records of w's crate that parse as semantic versions without a
\* pre-release part, by position in the index.
Stable(w) ==
    {i \in 1..Len(KrateOf(w)) :
        NumOf(KrateOf(w)[i]).ok /\ NumOf(KrateOf(w)[i]).pre = <<>>}

\* The request names a pre-release in one of its comparators.
NamesPre(req) == \E i \in 1..Len(req) : req[i].pre # <<>>

\* Worker w went through version selection.
WentThroughSelection(w) == Resolved(w) /\ Known(w) /\ workers[w].err # "index"

\* Worker w selected the newest of the records at the positions S, or
\* nothing when there is none.
SelectedNewestOf(w, S) ==
    IF S = {} THEN ~Selected(w)
    ELSE /\ \E i \in S : KrateOf(w)[i] = workers[w].version
         /\ \A j \in S :
               CmpVersion(NumOf(KrateOf(w)[j]), NumOf(workers[w].version)) <= 0

Caret12 == <<Cmp("Caret", 1, 2, NONE, <<>>)>>

\* C19 as claimed: a pre-release is selected only when the constraint names
\* a pre-release; without a constraint the selected version is the newest
\* version that is neither a pre-release nor yanked; and ^1.2 over 1.1.0,
\* 1.2.0, 1.3.0-beta, 2.0.0 selects 1.2.0.
C19_NoPrerelease ==
    \A w \in Threads :
        WentThroughSelection(w) =>
            /\ (Selected(w) /\ NumOf(workers[w].version).pre # <<>>)
                  => NamesPre(RequestOf(w))
            /\ ~app.specs[w].version_req.some
                  => SelectedNewestOf(w, {i \in Stable(w) : ~KrateOf(w)[i].yanked})
            /\ (RequestOf(w) = Caret12 /\ KrateOf(w) = FourVersions)
                  => workers[w].version = Foo120

\* C19 as amended: the same, but without a constraint the selected version
\* is the newest version that is not a pre-release and that passes the yank
\* filter: not yanked, or any when --allow-yanked is set.
C19_NoPrereleaseAmongAllowed ==
    \A w \in Threads :
        WentThroughSelection(w) =>
            /\ (Selected(w) /\ NumOf(workers[w].version).pre # <<>>)
                  => NamesPre(RequestOf(w))
            /\ ~app.specs[w].version_req.some
                  => SelectedNewestOf(w, {i \in Stable(w) :
                                            app.allow_yanked \/ ~KrateOf(w)[i].yanked})
            /\ (RequestOf(w) = Caret12 /\ KrateOf(w) = FourVersions)
                  => workers[w].version = Foo120

\* foo@^1.2 was resolved over the four versions of the example.
C19_Witness ==
    \E w \in Threads :
        /\ WentThroughSelection(w) /\ Selected(w)
        /\ RequestOf(w) = Caret12 /\ KrateOf(w) = FourVersions

\* ----------------------------------------------------------- input errors
\* Some token of the command line does not parse as a PackageIdSpec.
SomeTokenInvalid == \E i \in 1..Len(main.args) : ~PackageIdSpec_from_str(main.args[i]).ok

\* C20: when a token does not parse, then once the command line has been
\* read the process has exited with an error; App::run never started, so
\* no spec was acquired, the index was neither opened nor updated, nothing
\* was requested from the network and nothing written.
C20_ParseErrorBeforeRun ==
    (SomeTokenInvalid /\ main.pc # "args") =>
        /\ main.pc = "exited" /\ main.result = "invalid value"
        /\ main.invalid.arg \in 1..Len(main.args)
        /\ app.specs = <<>> /\ workers = <<>>
        /\ idx = [pc |-> "idle", spawned |-> 0, updates |-> 0, result |-> ""]
        /\ index = (IF app.update_index THEN Behind(env.upstream) ELSE env.upstream)
        /\ disk = EmptyDisk

\* `cargo dl foo f/` has exited: foo parses, f/ does not.
C20_Witness ==
    /\ main.pc = "exited" /\ main.args = <<Foo, <<"f", "/">>>>
    /\ main.invalid.arg = 2

\* ------------------------------------------------------ the stripped prefix
\* The entry's path begins with the `<name>-<version>` segment.
HasPrefix(path, base) == path # <<>> /\ path[1] = base

\* The directory reached from cur by the names segs, symlinks followed;
\* NoLoc when a name is missing or is no directory.
RECURSIVE Walk(_, _, _, _)
Walk(d, cur, segs, i) ==
    IF cur = NoLoc \/ i > Len(segs) THEN cur
    ELSE Walk(d, Follow(d, Child(cur, segs[i]), Cardinality(DOMAIN d)), segs, i + 1)

\* On disk d the name `<output>/p` denotes what the entry holds: its parent
\* directories exist, and the name is a directory for a directory entry,
\* and otherwise the entry's file or link.
WrittenAt(d, output, p, entry) ==
    LET dir == Walk(d, Loc(output, <<>>), SubSeq(p, 1, Len(p) - 1), 1)
        at == IF p = <<>> THEN Loc(output, <<>>) ELSE Child(dir, p[Len(p)])
    IN /\ dir # NoLoc
       /\ at \in DOMAIN d
       /\ IF entry.kind = "dir" THEN Follow(d, at, Cardinality(DOMAIN d)) # NoLoc
          ELSE d[at] = Node(entry.kind, Content(0, 0), entry.target)

\* C21: a round of unpack's loop that materializes the entry at archive path
\* `<name>-<version>/p` leaves it at `<dest>/p`, below parent directories
\* that exist; a round over an entry whose path does not begin with
\* `<name>-<version>` writes nothing, materializes nothing and ends the
\* unpack with an error.
C21_PrefixStripped ==
    [][\A w \in Threads :
         (/\ w \in DOMAIN workers' /\ workers[w].pc = "entries"
          /\ workers[w].i <= Len(workers[w].entries)
          /\ workers'[w] # workers[w]) =>
            LET entry == workers[w].entries[workers[w].i]
                base == BaseName(workers[w].version)
            IN IF HasPrefix(entry.path, base)
               THEN workers'[w].materialized # workers[w].materialized =>
                       /\ workers'[w].materialized =
                             Append(workers[w].materialized, workers[w].i)
                       /\ WrittenAt(disk', workers[w].output, Tail(entry.path), entry)
               ELSE /\ workers'[w].pc = "done" /\ workers'[w].result = "error"
                    /\ workers'[w].err \in {"strip prefix", "unsafe path"}
                    /\ workers'[w].materialized = workers[w].materialized
                    /\ workers'[w].touched = workers[w].touched
                    /\ disk' = disk]_vars

\* foo-1.2.0/src/lib.rs was written to out/src/lib.rs, and other/lib.rs
\* behind it ended the unpack.
C21_Witness ==
    \E w \in Threads :
        /\ workers[w].entries =
              <<Entry(<<BaseName(Foo120), <<"src">>, <<"lib.rs">>>>, "file", NoTarget),
                Entry(<<<<"other">>, <<"lib.rs">>>>, "file", NoTarget)>>
        /\ workers[w].output = <<"out">>
        /\ workers[w].materialized = <<1>> /\ workers[w].err = "strip prefix"
        /\ Loc(<<"out">>, <<<<"src">>, <<"lib.rs">>>>) \in DOMAIN disk
        /\ Loc(<<"out">>, <<<<"other">>>>) \notin DOMAIN disk

\* ------------------------------------------------------- the yanked hint
\* The worker ended with the message of main.rs:194.
NoMatchShown(w) ==
    /\ workers[w].pc = "done" /\ workers[w].result = "logged"
    /\ workers[w].msg.text = "no matching version found"

\* C24: with --allow-yanked set, a worker that found no candidate shows "no
\* matching version found" without the yanked-version hint; a message that
\* carries the hint is shown only in a run where --allow-yanked is unset.
C24_NoHintWhenYankedAllowed ==
    \A w \in Threads :
        /\ (app.allow_yanked /\ Resolved(w) /\ Known(w) /\ Candidates(w) = {}) =>
              (NoMatchShown(w) /\ ~workers[w].msg.hint
               /\ workers[w].msg.yanked = NoVersion)
        /\ workers[w].msg.hint => ~app.allow_yanked

\* With --allow-yanked a worker found no candidate although the index holds a
\* yanked record of the crate.
C24_Witness ==
    \E w \in Threads :
        /\ app.allow_yanked /\ NoMatchShown(w) /\ ~workers[w].msg.hint
        /\ \E i \in 1..Len(KrateOf(w)) : KrateOf(w)[i].yanked

\* ------------------------------------------- what is written or extracted
\* The worker holds an artifact that it is extracting, has extracted or has
\* written to its output.
Delivers(w) ==
    \/ workers[w].pc \in {"unpack", "entries"}
    \/ workers[w].pc = "done" /\ workers[w].result = "ok"
    \/ workers[w].pc = "done" /\ workers[w].source # "" /\ workers[w].touched # {}

\* C23: the bytes a worker writes to its output or extracts have the
\* SHA-256 that the selected version records, whether they were downloaded
\* or read from the cache, also when another process replaces the cache
\* file after cache::lookup has verified it.
C23_DeliveredMatchesChecksum ==
    \A w \in Threads :
        Delivers(w) => Sha256(workers[w].data) = workers[w].version.cksum

\* ------------------------------------------------------------- lookup_all
\* cache::lookup succeeds for the root at position k of w's list.
RootHits(w, k) ==
    lookup(workers[w].urls[k], workers[w].version, cache_fs, Fault(w, "hash")).ok

\* C22: lookup_all probes the roots in list order; it returns at the first
\* root whose lookup succeeds, with the path that lookup found, and probes no
\* root behind it; a root whose lookup fails is passed over; the error is
\* returned when every root has been probed and failed, and only then.
C22_FirstHitInOrder ==
    \A w \in Threads :
        main.pc = "call" =>
            LET urls == workers[w].urls
                probes == workers[w].probes
                n == Len(probes)
            IN /\ n <= Len(urls) /\ probes = SubSeq(urls, 1, n)
               /\ \A k \in 1..(n - 1) : ~RootHits(w, k)
               /\ workers[w].pc = "lookup_all" => \A k \in 1..n : ~RootHits(w, k)
               /\ workers[w].pc = "done" =>
                     /\ workers[w].result \in {"ok", "error"}
                     /\ workers[w].result = "ok" <=> (\E k \in 1..Len(urls) : RootHits(w, k))
                     /\ workers[w].result = "ok" =>
                           /\ n >= 1 /\ RootHits(w, n)
                           /\ workers[w].cached =
                                 lookup(urls[n], workers[w].version, cache_fs,
                                        Fault(w, "hash"))
                     /\ workers[w].result = "error" =>
                           /\ n = Len(urls) /\ ~workers[w].cached.ok

\* Of three roots the first is no registry index and the other two hold the
\* artifact: the second root's file was returned, the third was not probed.
C22_Witness ==
    \E w \in Threads :
        /\ main.pc = "call" /\ workers[w].pc = "done" /\ workers[w].result = "ok"
        /\ workers[w].urls = <<<<"home", "git", "checkouts">>, OtherIndexPath, IndexPath>>
        /\ workers[w].probes = <<<<"home", "git", "checkouts">>, OtherIndexPath>>
        /\ workers[w].cached = Ok(CacheFile(OtherCacheDir, CrateFileName(Foo120)))
        /\ RootHits(w, 3)

====
